---------------------------- MODULE Spec2Model ----------------------------
(***************************************************************************)
(* Model of pytb.rdb: the remote debugger session (class Rdb, set_trace)   *)
(* and the terminal client (class RdbClient); of the stream redirection of *)
(* pytb.io, the configuration of pytb.config and the command line; of the  *)
(* notifications, schedules, module loaders and the initialisation of the  *)
(* toolbox.                                                                *)
(*                                                                         *)
(* Spec        : one host thread driving the server side (set_trace,       *)
(*               direct Rdb construction, the debugger commands, cleanup). *)
(* SpecThreads : two host threads calling set_trace at the same time, one  *)
(*               step per statement of set_trace and Rdb.__init__.         *)
(* SpecClient  : the event loop of RdbClient.                              *)
(* SpecClientLive : SpecClient with the fairness its termination needs.    *)
(* SpecSend    : the socket-writable branch of RdbClient._handle_io        *)
(*               draining a buffer against a socket that takes partial     *)
(*               sends.                                                    *)
(* SpecSys     : sys.breakpointhook under install_hook / uninstall_hook,   *)
(*               and sys.stdout / sys.stderr under the redirection         *)
(*               contexts of pytb.io.                                      *)
(* SpecEntry   : how set_trace, RdbClient and the command line find their  *)
(*               address (arguments, environment, configuration) and how   *)
(*               the command line exits.                                   *)
(* SpecNotify  : the contexts Notify.when_done and Notify.when_stalled of  *)
(*               pytb.notification, and its Timer thread.                  *)
(* SpecSchedule: the thread of pytb.schedule.Schedule and a stop() call.   *)
(* SpecCron    : pytb.schedule.parse_cron_spec on the documented forms.    *)
(* SpecLoader  : pytb.importlib.ModuleLoader in sys.meta_path.             *)
(* SpecImport  : SpecLoader together with pytb.core.init.                  *)
(* SpecCleanup : Rdb._cleanup one statement at a time, on several Rdb      *)
(*               objects whose peers may disconnect.                       *)
(* SpecEvery   : the context Notify.every and the thread of its Timer.     *)
(***************************************************************************)
EXTENDS Integers, Sequences, FiniteSets, TLC

(***************************************************************************)
(* Bounds of the model.                                                    *)
(***************************************************************************)
\* how many Rdb objects may be constructed in one run
MaxObj == 3
\* how many bytes the remote peer sends before it closes
MaxPeerBytes == 3
\* how many bytes one recv() returns in the model (the code asks for RecvSize)
MaxChunk == 2
\* how many characters the operator types in one run
MaxTyped == 2
\* the largest number of bytes a send() accepts at once (SpecSend)
MaxAccept == 5
\* how deeply redirection contexts are nested (SpecSys)
MaxDepth == 2
\* how many .pytb.conf files are found and read (SpecEntry)
MaxFiles == 1

(***************************************************************************)
(* Names and values.                                                       *)
(***************************************************************************)
\* Rdb._std_streams
_std_streams == {"stdin", "stdout", "stderr"}

\* Rdb._session = None
None == 0

ObjIds == 1..MaxObj

\* An endpoint is what a sys.<stream> name refers to.  The connection_file of
\* the Rdb object o is the endpoint o; endpoints above 100 belong to the host.
Chan(o) == o
IsChan(e) == e \in ObjIds
\* the endpoints the interpreter starts with
StartStream == [stdin |-> 101, stdout |-> 102, stderr |-> 103]
\* an endpoint the host program installs on its own (sys.stdout = open(...))
HostStream == 104

\* the host threads that call set_trace concurrently (SpecThreads)
Threads == {"t1", "t2"}

\* an Rdb object nobody constructed yet
NoObj ==
    [alloc |-> FALSE, built |-> FALSE, open |-> FALSE, stdio_patched |-> FALSE,
     original_streams |-> StartStream, stdin |-> 0, stdout |-> 0,
     pre |-> StartStream, cleaned |-> FALSE, recleaned |-> FALSE]

VARIABLES
    session,    \* Rdb._session: None or the id of an Rdb object
    objs,       \* the Rdb objects constructed so far, by id
    nObj,       \* number of Rdb objects constructed so far
    sys,        \* sys.stdin, sys.stdout, sys.stderr
    pc,         \* "host": host code runs; "interact": the debugger command loop runs
    cur,        \* the Rdb object whose command loop runs, None when none runs
    nBind,      \* bind() calls so far
    nListen,    \* listen() calls so far
    nAccept,    \* accept() calls so far
    via,        \* how that command loop was started: "set_trace" or "run"
    last,       \* the operation that ran last, and how it ended
    tpc,        \* SpecThreads: the line of set_trace / __init__ each thread is at
    targ,       \* SpecThreads: the patch_stdio argument of each thread's call
    tself,      \* SpecThreads: the object each thread constructs, then traps on

    cpc,            \* SpecClient: "loop", "dispatch" or "exit"
    ready,          \* SpecClient: the events select() returned, not yet dispatched
    socket_closed,  \* RdbClient.socket_closed
    stdoutbuf,      \* RdbClient.stdoutbuf: bytes received, not yet written
    socketbuf,      \* RdbClient.socketbuf: bytes typed, not yet sent
    eof,            \* SpecClient: the peer has closed the connection
    rcount,         \* SpecClient: number of bytes recv() has returned so far
    written,        \* SpecClient: the bytes local output has accepted so far
    typed,          \* SpecClient: the characters read from local input so far
    sent,           \* SpecClient: the bytes the socket has accepted so far
    closebuf,       \* SpecClient: stdoutbuf when the first zero-length recv returned

    accepts,        \* SpecSend: how many bytes the socket accepts per send()
    cycles,         \* SpecSend: socket-writable callbacks since local input stopped
    spc,            \* SpecSend: "fill" while local input arrives, then "send"

    breakpointhook,             \* sys.breakpointhook
    _previous_breakpoint_hook,  \* the module global of rdb.py 191
    hook_before,    \* SpecSys: sys.breakpointhook before the last install_hook()
    hook_last,      \* SpecSys: the last operation on the hook
    hook_installed, \* SpecSys: install_hook() has been called
    ctx,            \* SpecSys: the redirection contexts that are open, innermost last
    closed,         \* SpecSys: the files _permissive_open has closed
    exit_path,      \* SpecSys: how the last context was left: "normal", "exception"

    environ,        \* os.environ: REMOTE_PDB_HOST and REMOTE_PDB_PORT
    files,          \* the [rdb] sections of the .pytb.conf files, in reading order
    epc,            \* SpecEntry: "start", then "done" once an entry point has run
    call,           \* SpecEntry: the entry point that ran, its arguments and outcome
    bound,          \* SpecEntry: the address handed to bind()
    target,         \* SpecEntry: the address handed to create_connection()
    cli,            \* SpecEntry: what the command line did and its exit status

    npc,            \* SpecNotify: where the code using Notify / Timer is
    nctx,           \* SpecNotify: the notification context entered and its arguments
    output,         \* SpecNotify: length of what the monitored block has printed
    last_output,    \* when_stalled: last_output (as a length)
    was_stalled,    \* when_stalled: was_stalled
    notifications,  \* the reasons _send_notification was called with, in order
    exception,      \* when_done: the local `exception`, "None" or "Exception"
    propagated,     \* SpecNotify: what the context manager raised to its caller
    interval,       \* Timer.interval
    _stop_event,    \* Timer._stop_event: <<>> for None, else <<is_set()>>
    timer_pc,       \* SpecNotify: where Timer.run is
    started,        \* SpecNotify: how the Timer thread was started
    timer_target,   \* Timer.target
    calls,          \* SpecNotify: invocations of Timer.target so far
    stop_outcome,   \* SpecNotify: how the last Timer.stop() ended
    observed,       \* SpecNotify: `calls` when run() saw the stop event set

    sched_pc,       \* SpecSchedule: where Schedule.run is
    gen,            \* Schedule._interval: the due dates the generator still yields
    schedule_stop_event,    \* Schedule._stop_event.is_set()
    is_running,     \* Schedule.is_running.is_set()
    taken,          \* SpecSchedule: the due date next_schedule() returned last
    runs,           \* SpecSchedule: the due dates the target was invoked for
    finished,       \* SpecSchedule: invocations of the target that have returned
    stop_pc,        \* SpecSchedule: where the other thread's stop() call is
    stop_during,    \* SpecSchedule: stop() was called while the target ran
    exhausted,      \* SpecSchedule: next_schedule() has raised StopIteration

    cron,           \* SpecCron: <<>>, or <<the call of parse_cron_spec made and its result>>

    meta_path,      \* sys.meta_path
    scopes,         \* SpecImport: the loaders whose with-scope is open, innermost last
    loader_last,    \* SpecImport: the last ModuleLoader operation and how it ended
    _initializer_frame, \* core._initializer_frame: <<>> for None, else <<frame>>
    init_config,    \* current_config["init"]: <<>> until pytb.config is imported
    performed,      \* SpecImport: how often init() performed each initialisation action
    nInit,          \* SpecImport: calls of init() so far
    init_last,      \* SpecImport: how the last call of init() ended

    kpc,            \* SpecCleanup: the statement of _cleanup that runs next
    kself,          \* SpecCleanup: the object whose _cleanup runs
    kop,            \* SpecCleanup: the command that called _cleanup
    ksteps,         \* SpecCleanup: the statements of this _cleanup that have run
    kflushed,       \* SpecCleanup: the streams the last _flush_outputs flushed
    kstale,         \* SpecCleanup: a flush or write was issued to a closed channel
    peer_gone,      \* SpecCleanup: the objects whose peer has disconnected
    kerr            \* SpecCleanup: the exception the last _cleanup let through

srvVars ==
    <<session, objs, nObj, sys, pc, cur, via, nBind, nListen, nAccept, last>>
thrVars == <<tpc, targ, tself>>
cliVars ==
    <<cpc, ready, socket_closed, stdoutbuf, socketbuf, eof, rcount, written,
      typed, sent, closebuf>>
sendVars == <<accepts, cycles, spc>>
sysVars ==
    <<breakpointhook, _previous_breakpoint_hook, hook_before, hook_last,
      hook_installed, ctx, closed, exit_path>>
entryVars == <<environ, files, epc, call, bound, target, cli>>
notifyVars ==
    <<npc, nctx, output, last_output, was_stalled, notifications, exception,
      propagated>>
timerVars ==
    <<interval, _stop_event, timer_pc, started, timer_target, calls,
      stop_outcome, observed>>
schedVars ==
    <<sched_pc, gen, schedule_stop_event, is_running, taken, runs, finished,
      stop_pc, stop_during, exhausted>>
cronVars == <<cron>>
importVars ==
    <<meta_path, scopes, loader_last, _initializer_frame, init_config,
      performed, nInit, init_last>>
cleanVars ==
    <<kpc, kself, kop, ksteps, kflushed, kstale, peer_gone, kerr>>
libVars ==
    <<notifyVars, timerVars, schedVars, cronVars, importVars, cleanVars>>
restNotify ==
    <<srvVars, thrVars, cliVars, sendVars, sysVars, entryVars, schedVars,
      cronVars, importVars, cleanVars>>
restSchedule ==
    <<srvVars, thrVars, cliVars, sendVars, sysVars, entryVars, notifyVars,
      timerVars, cronVars, importVars, cleanVars>>
restCron ==
    <<srvVars, thrVars, cliVars, sendVars, sysVars, entryVars, notifyVars,
      timerVars, schedVars, importVars, cleanVars>>
restLoader ==
    <<srvVars, thrVars, cliVars, sendVars, sysVars, entryVars, notifyVars,
      timerVars, schedVars, cronVars, cleanVars>>
extVars == <<sendVars, sysVars, entryVars, libVars>>
vars == <<srvVars, thrVars, cliVars, extVars>>

Done(op, o, raised) == [op |-> op, obj |-> o, raised |-> raised]

\* nothing of pytb.notification is in use yet
InitNotifyVars ==
    /\ npc = "idle"
    /\ nctx = [kind |-> "none", only_if_error |-> FALSE, outcome |-> "none"]
    /\ output = 0
    /\ last_output = 0
    /\ was_stalled = FALSE
    /\ notifications = <<>>
    /\ exception = "None"
    /\ propagated = "none"

\* no Timer object exists yet
InitTimerVars ==
    /\ interval = 0
    /\ _stop_event = <<>>
    /\ timer_pc = "none"
    /\ started = "no"
    /\ timer_target = "none"
    /\ calls = 0
    /\ stop_outcome = "none"
    /\ observed = <<>>

\* no Schedule object exists yet
InitSchedVars ==
    /\ sched_pc = "none"
    /\ gen = <<>>
    /\ schedule_stop_event = FALSE
    /\ is_running = FALSE
    /\ taken = "none"
    /\ runs = <<>>
    /\ finished = 0
    /\ stop_pc = "none"
    /\ stop_during = FALSE
    /\ exhausted = FALSE

\* parse_cron_spec has not been called
InitCronVars == cron = <<>>

\* the finder the interpreter starts with
PathFinder == 0

\* no loader is installed, init() has not been called
InitImportVars ==
    /\ meta_path = <<PathFinder>>
    /\ scopes = <<>>
    /\ loader_last = [op |-> "none", loader |-> PathFinder, outcome |-> "none"]
    /\ _initializer_frame = <<>>
    /\ init_config = <<>>
    /\ performed = [module_cache |-> 0, notebook_loader |-> 0, rdb_hook |-> 0]
    /\ nInit = 0
    /\ init_last = [outcome |-> "none", again |-> FALSE, ok |-> FALSE]

\* no _cleanup runs and every peer is connected
InitCleanVars ==
    /\ kpc = "idle"
    /\ kself = None
    /\ kop = "none"
    /\ ksteps = <<>>
    /\ kflushed = <<>>
    /\ kstale = FALSE
    /\ peer_gone = {}
    /\ kerr = "none"

InitLibVars ==
    /\ InitNotifyVars
    /\ InitTimerVars
    /\ InitSchedVars
    /\ InitCronVars
    /\ InitImportVars
    /\ InitCleanVars

InitCore ==
    /\ InitLibVars
    /\ session = None
    /\ objs = [o \in ObjIds |-> NoObj]
    /\ nObj = 0
    /\ sys = StartStream
    /\ pc = "host"
    /\ cur = None
    /\ nBind = 0
    /\ nListen = 0
    /\ nAccept = 0
    /\ via = "none"
    /\ last = Done("init", None, FALSE)
    /\ tpc = [t \in Threads |-> "call"]
    /\ targ = [t \in Threads |-> FALSE]
    /\ tself = [t \in Threads |-> None]
    /\ cpc = "loop"
    /\ ready = {}
    /\ socket_closed = FALSE
    /\ stdoutbuf = <<>>
    /\ socketbuf = <<>>
    /\ eof = FALSE
    /\ rcount = 0
    /\ written = <<>>
    /\ typed = <<>>
    /\ sent = <<>>
    /\ closebuf = <<>>

InitSendVars(ks) ==
    /\ accepts \in ks
    /\ cycles = 0
    /\ spc = "fill"

\* rdb.py 191; no context is open
InitSysVars ==
    /\ breakpointhook = "builtin"
    /\ _previous_breakpoint_hook = "None"
    /\ hook_before = "builtin"
    /\ hook_last = "none"
    /\ hook_installed = FALSE
    /\ ctx = <<>>
    /\ closed = {}
    /\ exit_path = "none"

\* An optional value is <<>> (None, unset, absent) or <<v>>.
\* the process before any entry point ran, in the environment env and with
\* the configuration files fs
InitEntryVars(envs, fss) ==
    /\ environ \in envs
    /\ files \in fss
    /\ epc = "start"
    /\ call = [op |-> "none", host |-> <<>>, port |-> <<>>, outcome |-> "none"]
    /\ bound = <<>>
    /\ target = <<>>
    /\ cli = [status |-> <<>>, nConnect |-> 0, relay |-> FALSE, log |-> "none"]

\* no override is set and no configuration file exists
NoEnviron == [REMOTE_PDB_HOST |-> <<>>, REMOTE_PDB_PORT |-> <<>>]

Init ==
    InitCore /\ InitSendVars({1}) /\ InitSysVars
        /\ InitEntryVars({NoEnviron}, {<<>>})

(***************************************************************************)
(* Rdb.__init__ (rdb.py 67-111).  self is a fresh object.  Line 75 stores  *)
(* it in Rdb._session before anything else; bind() may raise (bindOk),     *)
(* listen() and the blocking accept() follow; the engine is bound to the   *)
(* connection file; with patch_stdio the three names are saved and         *)
(* replaced.                                                               *)
(***************************************************************************)
\* lines 104-109: the state of self after a complete construction
Constructed(self, patch_stdio) ==
    [alloc |-> TRUE, built |-> TRUE, open |-> TRUE,
     stdio_patched |-> patch_stdio,
     original_streams |-> IF patch_stdio THEN sys ELSE StartStream,
     stdin |-> Chan(self), stdout |-> Chan(self),
     pre |-> IF patch_stdio THEN sys ELSE StartStream,
     cleaned |-> FALSE, recleaned |-> FALSE]

\* lines 107-109: sys after the patch loop
Patched(self, patch_stdio) ==
    IF patch_stdio THEN [s \in _std_streams |-> Chan(self)] ELSE sys

\* the object when bind() raised: nothing after line 75 has run
HalfBuilt == [NoObj EXCEPT !.alloc = TRUE]

RdbInit(self, patch_stdio, bindOk) ==
    /\ nObj' = self
    /\ nBind' = nBind + 1
    /\ IF bindOk
       THEN /\ nListen' = nListen + 1
            /\ nAccept' = nAccept + 1
            /\ objs' = [objs EXCEPT ![self] = Constructed(self, patch_stdio)]
            /\ sys' = Patched(self, patch_stdio)
       ELSE /\ objs' = [objs EXCEPT ![self] = HalfBuilt]
            /\ UNCHANGED <<nListen, nAccept, sys>>

(***************************************************************************)
(* Rdb._flush_outputs (rdb.py 113-118): flush() of a closed file raises    *)
(* ValueError; every other endpoint accepts the flush.                     *)
(***************************************************************************)
FlushRaises == \E s \in _std_streams : IsChan(sys[s]) /\ ~objs[sys[s]].open

(***************************************************************************)
(* Rdb._cleanup (rdb.py 120-136) on the object self, when the flush of     *)
(* line 125 did not raise.                                                 *)
(***************************************************************************)
Restored_unconditionally(self) == objs[self].original_streams

Restored(self) ==
    IF objs[self].stdio_patched THEN objs[self].original_streams ELSE sys

CleanedUp(self) ==
    [objs[self] EXCEPT
        !.stdin = Restored(self)["stdin"],
        !.stdout = Restored(self)["stdout"],
        !.open = FALSE,
        !.cleaned = TRUE,
        !.recleaned = objs[self].cleaned]

\* _cleanup without line 136: the session reference survives the cleanup
_cleanup_keeps_session(self, raised) ==
    /\ raised = FlushRaises
    /\ IF raised
       THEN UNCHANGED <<sys, objs, session>>
       ELSE /\ sys' = Restored(self)
            /\ objs' = [objs EXCEPT ![self] = CleanedUp(self)]
            /\ session' = session

\* the whole of _cleanup: raised = the flush raised and nothing else ran
_cleanup(self, raised) ==
    /\ raised = FlushRaises
    /\ IF raised
       THEN UNCHANGED <<sys, objs, session>>
       ELSE /\ sys' = Restored(self)
            /\ objs' = [objs EXCEPT ![self] = CleanedUp(self)]
            /\ session' = None

(***************************************************************************)
(* set_trace (rdb.py 163-188).                                             *)
(***************************************************************************)
\* set_trace without the test of line 178: every call constructs
set_trace_always_constructs(patch_stdio, bindOk) ==
    /\ pc = "host"
    /\ UNCHANGED <<thrVars, cliVars, extVars>>
    /\ nObj < MaxObj
    /\ RdbInit(nObj + 1, patch_stdio, bindOk)
    /\ session' = nObj + 1
    /\ IF bindOk
       THEN /\ pc' = "interact"
            /\ cur' = nObj + 1
            /\ via' = "set_trace"
            /\ last' = Done("set_trace", nObj + 1, FALSE)
       ELSE /\ UNCHANGED <<pc, cur, via>>
            /\ last' = Done("set_trace", nObj + 1, TRUE)

\* set_trace that applies its patch_stdio argument to the session it reuses
set_trace_repatches(patch_stdio, bindOk) ==
    /\ pc = "host"
    /\ UNCHANGED <<thrVars, cliVars, extVars>>
    /\ session # None
    /\ objs[session].built
    /\ objs' = [objs EXCEPT ![session].stdio_patched = patch_stdio]
    /\ sys' = Patched(session, patch_stdio)
    /\ pc' = "interact"
    /\ cur' = session
    /\ via' = "set_trace"
    /\ last' = Done("reuse", session, FALSE)
    /\ UNCHANGED <<session, nObj, nBind, nListen, nAccept>>

set_trace(patch_stdio, bindOk) ==
    /\ pc = "host"
    /\ UNCHANGED <<thrVars, cliVars, extVars>>
    /\ IF session = None
       THEN \* lines 178-186: construct, then line 186 stores the session
            /\ nObj < MaxObj
            /\ RdbInit(nObj + 1, patch_stdio, bindOk)
            /\ session' = nObj + 1
            /\ IF bindOk
               THEN \* line 188: the trap starts the command loop
                    /\ pc' = "interact"
                    /\ cur' = nObj + 1
                    /\ via' = "set_trace"
                    /\ last' = Done("set_trace", nObj + 1, FALSE)
               ELSE \* bind raised out of set_trace; line 75 has run
                    /\ UNCHANGED <<pc, cur, via>>
                    /\ last' = Done("set_trace", nObj + 1, TRUE)
       ELSE \* line 188 alone: the session is reused
            /\ UNCHANGED <<session, objs, nObj, sys, nBind, nListen, nAccept>>
            /\ IF objs[session].built
               THEN /\ pc' = "interact"
                    /\ cur' = session
                    /\ via' = "set_trace"
                    /\ last' = Done("reuse", session, FALSE)
               ELSE \* the engine of a half built object was never initialised
                    /\ UNCHANGED <<pc, cur, via>>
                    /\ last' = Done("reuse", session, TRUE)

(***************************************************************************)
(* Rdb(...) called directly, as the command line does (__main__.py 217).   *)
(***************************************************************************)
RdbDirect(patch_stdio, bindOk) ==
    /\ pc = "host"
    /\ UNCHANGED <<thrVars, cliVars, extVars>>
    /\ nObj < MaxObj
    /\ RdbInit(nObj + 1, patch_stdio, bindOk)
    /\ session' = nObj + 1
    /\ UNCHANGED <<pc, cur, via>>
    /\ last' = Done("Rdb", nObj + 1, ~bindOk)

(***************************************************************************)
(* rdb._runscript / rdb.interaction of the command line (__main__.py       *)
(* 221-250): the command loop of an object the host holds starts.          *)
(***************************************************************************)
RunScript(o) ==
    /\ pc = "host"
    /\ UNCHANGED <<thrVars, cliVars, extVars>>
    /\ objs[o].built
    /\ objs[o].open
    /\ pc' = "interact"
    /\ cur' = o
    /\ via' = "run"
    /\ last' = Done("run", o, FALSE)
    /\ UNCHANGED <<session, objs, nObj, sys, nBind, nListen, nAccept>>

(***************************************************************************)
(* The debugger commands, read by the command loop of cur.                 *)
(***************************************************************************)
\* do_continue that tears the session down as do_quit does
do_continue_cleans ==
    /\ pc = "interact"
    /\ UNCHANGED <<thrVars, cliVars, extVars>>
    /\ \E raised \in BOOLEAN :
          /\ _cleanup(cur, raised)
          /\ last' = Done("continue", cur, raised)
    /\ pc' = "host"
    /\ cur' = None
    /\ via' = "none"
    /\ UNCHANGED <<nObj, nBind, nListen, nAccept>>

\* do_continue (rdb.py 138-142)
do_continue ==
    /\ pc = "interact"
    /\ UNCHANGED <<thrVars, cliVars, extVars>>
    /\ pc' = "host"
    /\ cur' = None
    /\ via' = "none"
    /\ last' = Done("continue", cur, FlushRaises)
    /\ UNCHANGED <<session, objs, nObj, sys, nBind, nListen, nAccept>>

\* do_quit (rdb.py 148-152)
do_quit ==
    /\ pc = "interact"
    /\ UNCHANGED <<thrVars, cliVars, extVars>>
    /\ \E raised \in BOOLEAN :
          /\ _cleanup(cur, raised)
          /\ last' = Done("quit", cur, raised)
    /\ pc' = "host"
    /\ cur' = None
    /\ via' = "none"
    /\ UNCHANGED <<nObj, nBind, nListen, nAccept>>

\* do_EOF (rdb.py 144-146): after the cleanup pdb writes an empty message to
\* self.stdout, which raises ValueError when that is a closed file
do_EOF ==
    /\ pc = "interact"
    /\ UNCHANGED <<thrVars, cliVars, extVars>>
    /\ \E raised \in BOOLEAN :
          /\ _cleanup(cur, raised)
          /\ last' = Done("EOF", cur,
                          \/ raised
                          \/ /\ IsChan(objs'[cur].stdout)
                             /\ ~objs'[objs'[cur].stdout].open)
    /\ pc' = "host"
    /\ cur' = None
    /\ via' = "none"
    /\ UNCHANGED <<nObj, nBind, nListen, nAccept>>

\* the engine (pdb) raises inside the command loop; set_trace (163-188)
\* has no handler, the exception reaches the host
EngineRaises ==
    /\ pc = "interact"
    /\ UNCHANGED <<thrVars, cliVars, extVars>>
    /\ pc' = "host"
    /\ cur' = None
    /\ via' = "none"
    /\ last' = Done("engine", cur, TRUE)
    /\ UNCHANGED <<session, objs, nObj, sys, nBind, nListen, nAccept>>

(***************************************************************************)
(* The host calls do_quit on an object it holds (__main__.py 242, 254).    *)
(***************************************************************************)
HostQuit(o) ==
    /\ pc = "host"
    /\ UNCHANGED <<thrVars, cliVars, extVars>>
    /\ objs[o].built
    /\ \E raised \in BOOLEAN :
          /\ _cleanup(o, raised)
          /\ last' = Done("host_quit", o, raised)
    /\ UNCHANGED <<nObj, pc, cur, via, nBind, nListen, nAccept>>

(***************************************************************************)
(* The host program assigns sys.stdout (sys.stdout = open(...)).           *)
(***************************************************************************)
HostSet ==
    /\ pc = "host"
    /\ UNCHANGED <<thrVars, cliVars, extVars>>
    /\ sys["stdout"] # HostStream
    /\ sys' = [sys EXCEPT !["stdout"] = HostStream]
    /\ last' = Done("host_set", None, FALSE)
    /\ UNCHANGED <<session, objs, nObj, pc, cur, via, nBind, nListen, nAccept>>

Next ==
    \/ \E p \in BOOLEAN, ok \in BOOLEAN : set_trace(p, ok)
    \/ \E p \in BOOLEAN, ok \in BOOLEAN : RdbDirect(p, ok)
    \/ \E o \in ObjIds : RunScript(o)
    \/ do_continue
    \/ do_quit
    \/ do_EOF
    \/ EngineRaises
    \/ \E o \in ObjIds : HostQuit(o)
    \/ HostSet

Spec == Init /\ [][Next]_vars

(***************************************************************************)
(* SpecThreads: set_trace (rdb.py 163-188) and Rdb.__init__ (67-111) run   *)
(* by several threads, one statement at a time.  The position of a thread: *)
(*   "call"   about to test Rdb._session (line 178)                        *)
(*   "init"   in Rdb.__init__, about to run line 75                        *)
(*   "bind"   about to bind (line 91)                                      *)
(*   "listen" about to listen (line 95)                                    *)
(*   "accept" about to accept (line 96)                                    *)
(*   "finish" about to bind the engine and patch stdio (lines 99-111)      *)
(*   "store"  about to store the new object (line 186)                     *)
(*   "trap"   about to call Rdb._session.set_trace (line 188)              *)
(*   "loop"   in the command loop of tself                                 *)
(*   "bind_raised", "trap_raised"  left set_trace by an exception          *)
(***************************************************************************)
Goto(t, line) == tpc' = [tpc EXCEPT ![t] = line]

\* line 178
T_Test(t, patch_stdio) ==
    /\ tpc[t] = "call"
    /\ targ' = [targ EXCEPT ![t] = patch_stdio]
    /\ Goto(t, IF session = None THEN "init" ELSE "trap")
    /\ UNCHANGED <<srvVars, cliVars, extVars, tself>>

\* line 75
T_Line75(t) ==
    /\ tpc[t] = "init"
    /\ nObj < MaxObj
    /\ nObj' = nObj + 1
    /\ objs' = [objs EXCEPT ![nObj + 1] = HalfBuilt]
    /\ tself' = [tself EXCEPT ![t] = nObj + 1]
    /\ session' = nObj + 1
    /\ Goto(t, "bind")
    /\ UNCHANGED <<sys, pc, cur, via, nBind, nListen, nAccept, last, targ,
                   cliVars, extVars>>

\* line 91
T_Bind(t, bindOk) ==
    /\ tpc[t] = "bind"
    /\ nBind' = nBind + 1
    /\ Goto(t, IF bindOk THEN "listen" ELSE "bind_raised")
    /\ UNCHANGED <<session, objs, nObj, sys, pc, cur, via, nListen, nAccept,
                   last,
                   targ, tself, cliVars, extVars>>

\* line 95
T_Listen(t) ==
    /\ tpc[t] = "listen"
    /\ nListen' = nListen + 1
    /\ Goto(t, "accept")
    /\ UNCHANGED <<session, objs, nObj, sys, pc, cur, via, nBind, nAccept, last,
                   targ, tself, cliVars, extVars>>

\* line 96
T_Accept(t) ==
    /\ tpc[t] = "accept"
    /\ nAccept' = nAccept + 1
    /\ Goto(t, "finish")
    /\ UNCHANGED <<session, objs, nObj, sys, pc, cur, via, nBind, nListen, last,
                   targ, tself, cliVars, extVars>>

\* lines 99-111
T_Finish(t) ==
    /\ tpc[t] = "finish"
    /\ objs' = [objs EXCEPT ![tself[t]] = Constructed(tself[t], targ[t])]
    /\ sys' = Patched(tself[t], targ[t])
    /\ Goto(t, "store")
    /\ UNCHANGED <<session, nObj, pc, cur, via, nBind, nListen, nAccept, last,
                   targ, tself, cliVars, extVars>>

\* line 186
T_Store(t) ==
    /\ tpc[t] = "store"
    /\ session' = tself[t]
    /\ Goto(t, "trap")
    /\ UNCHANGED <<objs, nObj, sys, pc, cur, via, nBind, nListen, nAccept, last,
                   targ, tself, cliVars, extVars>>

\* line 188: the trap runs on whatever Rdb._session holds now; it raises when
\* that is None or an object whose engine was not initialised yet
T_Trap(t) ==
    /\ tpc[t] = "trap"
    /\ tself' = [tself EXCEPT ![t] = session]
    /\ Goto(t, IF session # None /\ objs[session].built
                THEN "loop" ELSE "trap_raised")
    /\ UNCHANGED <<srvVars, targ, cliVars, extVars>>

NextThreads ==
    \/ \E t \in Threads, p \in BOOLEAN : T_Test(t, p)
    \/ \E t \in Threads : T_Line75(t)
    \/ \E t \in Threads, ok \in BOOLEAN : T_Bind(t, ok)
    \/ \E t \in Threads : T_Listen(t)
    \/ \E t \in Threads : T_Accept(t)
    \/ \E t \in Threads : T_Finish(t)
    \/ \E t \in Threads : T_Store(t)
    \/ \E t \in Threads : T_Trap(t)

SpecThreads == Init /\ [][NextThreads]_vars

(***************************************************************************)
(* SpecClient: RdbClient (rdb.py 212-280).                                 *)
(*                                                                         *)
(* The remote peer sends the bytes PeerByte(1), PeerByte(2), ... and then  *)
(* closes; the operator types characters of Chars.                         *)
(***************************************************************************)
\* rdb.py 268: self.socket.recv(1024)
RecvSize == 1024

Min(a, b) == IF a < b THEN a ELSE b

PeerByte(i) == i
\* the bytes recv() has returned so far, in order
Received == [i \in 1..rcount |-> PeerByte(i)]

\* the characters of local input, and str.encode of line 277 (utf-8)
Chars == {"a", "e_acute"}
EncodeChar(c) == IF c = "a" THEN <<97>> ELSE <<195, 169>>
RECURSIVE Encode(_)
Encode(text) ==
    IF text = <<>> THEN <<>> ELSE EncodeChar(Head(text)) \o Encode(Tail(text))

\* what read() of line 277 may return: the characters typed since the last read
Texts == {<<>>} \cup {<<c>> : c \in Chars} \cup {<<c, d>> : c \in Chars, d \in Chars}

\* s[n:] of lines 275 and 280
Drop(s, n) == SubSeq(s, n + 1, Len(s))
Take(s, n) == SubSeq(s, 1, n)

\* the events select() can report: registered are the socket for read and
\* write, local input for read, local output for write (lines 245-251)
Events ==
    {[stream |-> "socket", mask |-> m] : m \in {"R", "W", "RW"}}
        \cup {[stream |-> "stdin", mask |-> "R"], [stream |-> "stdout", mask |-> "W"]}

\* a selector reports each registered stream at most once, and a socket whose
\* peer has closed is readable
Reportable(evs) ==
    /\ evs # {}
    /\ \A e \in evs, f \in evs : e.stream = f.stream => e = f
    /\ eof => \E e \in evs : e.stream = "socket" /\ e.mask # "W"

\* line 258 without its second operand: the loop ends as soon as the peer closed
LoopCondition_ignores_buffer == ~socket_closed

\* line 258: the condition of the while loop
LoopCondition == ~socket_closed \/ stdoutbuf # <<>>

\* lines 258-260: the loop condition holds and select() returns
Select(evs) ==
    /\ cpc = "loop"
    /\ LoopCondition
    /\ Reportable(evs)
    /\ ready' = evs
    /\ cpc' = "dispatch"
    /\ UNCHANGED <<socket_closed, stdoutbuf, socketbuf, eof, rcount, written,
                   typed, sent, closebuf, srvVars, thrVars, extVars>>

\* line 258: the loop condition fails, __init__ returns
Exit ==
    /\ cpc = "loop"
    /\ ~LoopCondition
    /\ cpc' = "exit"
    /\ UNCHANGED <<ready, socket_closed, stdoutbuf, socketbuf, eof, rcount,
                   written, typed, sent, closebuf, srvVars, thrVars, extVars>>

\* lines 267-271 without line 270: a zero-length recv is not recorded
SocketReadable_never_closes(n) ==
    /\ IF n = 0 THEN eof' = TRUE ELSE ~eof /\ eof' = eof
    /\ rcount + n <= MaxPeerBytes
    /\ rcount' = rcount + n
    /\ socket_closed' = socket_closed
    /\ stdoutbuf' = stdoutbuf \o [i \in 1..n |-> PeerByte(rcount + i)]
    /\ closebuf' = closebuf
    /\ UNCHANGED <<socketbuf, written, typed, sent>>

\* lines 267-271: n bytes arrive, n = 0 when the peer has closed
SocketReadable(n) ==
    /\ IF n = 0 THEN eof' = TRUE ELSE ~eof /\ eof' = eof
    /\ rcount + n <= MaxPeerBytes
    /\ rcount' = rcount + n
    /\ socket_closed' = (socket_closed \/ n = 0)
    /\ stdoutbuf' = stdoutbuf \o [i \in 1..n |-> PeerByte(rcount + i)]
    /\ closebuf' = IF n = 0 /\ ~socket_closed THEN stdoutbuf ELSE closebuf
    /\ UNCHANGED <<socketbuf, written, typed, sent>>

\* lines 272-275 taking every send for a full one: the buffer is emptied
SocketWritable_full_send(k) ==
    IF socketbuf # <<>>
    THEN /\ k \in 1..Len(socketbuf)
         /\ sent' = sent \o Take(socketbuf, k)
         /\ socketbuf' = <<>>
         /\ UNCHANGED <<socket_closed, stdoutbuf, eof, rcount, written, typed,
                        closebuf>>
    ELSE /\ k = 0
         /\ UNCHANGED <<socket_closed, stdoutbuf, socketbuf, eof, rcount, written,
                        typed, sent, closebuf>>

\* lines 272-275: the socket accepts k bytes of the buffer
SocketWritable(k) ==
    IF socketbuf # <<>>
    THEN /\ k \in 1..Len(socketbuf)
         /\ sent' = sent \o Take(socketbuf, k)
         /\ socketbuf' = Drop(socketbuf, k)
         /\ UNCHANGED <<socket_closed, stdoutbuf, eof, rcount, written, typed,
                        closebuf>>
    ELSE /\ k = 0
         /\ UNCHANGED <<socket_closed, stdoutbuf, socketbuf, eof, rcount,
                   written,
                        typed, sent, closebuf>>

\* lines 276-277 putting the new bytes in front of the buffer
StdinReadable_prepends(text) ==
    /\ Len(typed) + Len(text) <= MaxTyped
    /\ typed' = typed \o text
    /\ socketbuf' = Encode(text) \o socketbuf
    /\ UNCHANGED <<socket_closed, stdoutbuf, eof, rcount, written, sent,
                   closebuf>>

\* lines 276-277: read() returns text, which is encoded and appended
StdinReadable(text) ==
    /\ Len(typed) + Len(text) <= MaxTyped
    /\ typed' = typed \o text
    /\ socketbuf' = socketbuf \o Encode(text)
    /\ UNCHANGED <<socket_closed, stdoutbuf, eof, rcount, written, sent,
                   closebuf>>

\* lines 278-280 taking every write for a full one: the buffer is emptied
StdoutWritable_full_write(k) ==
    /\ k \in 0..Len(stdoutbuf)
    /\ written' = written \o Take(stdoutbuf, k)
    /\ stdoutbuf' = <<>>
    /\ UNCHANGED <<socket_closed, socketbuf, eof, rcount, typed, sent,
                   closebuf>>

\* lines 278-280: local output accepts k bytes of the buffer
StdoutWritable(k) ==
    /\ k \in 0..Len(stdoutbuf)
    /\ written' = written \o Take(stdoutbuf, k)
    /\ stdoutbuf' = Drop(stdoutbuf, k)
    /\ UNCHANGED <<socket_closed, socketbuf, eof, rcount, typed, sent,
                   closebuf>>

\* lines 265-280: one call of the callback; n and text are what the
\* environment delivers, k what it accepts
_handle_io(stream, mask, n, k, text) ==
    IF stream = "socket"
    THEN IF mask \in {"R", "RW"}
         THEN SocketReadable(n)
         ELSE SocketWritable(k)
    ELSE IF stream = "stdin"
         THEN StdinReadable(text)
         ELSE StdoutWritable(k)

\* lines 261-263: the next event of the list is dispatched
Dispatch(e) ==
    /\ cpc = "dispatch"
    /\ e \in ready
    /\ \E n \in 0..Min(RecvSize, MaxChunk), k \in 0..(MaxPeerBytes + 2 * MaxTyped),
          text \in Texts :
          \* the inputs an event does not use are fixed
          /\ (e.stream = "socket" /\ e.mask # "W") \/ n = 0
          /\ e.stream = "stdin" \/ text = <<>>
          /\ e.stream = "stdout" \/ (e.stream = "socket" /\ e.mask = "W") \/ k = 0
          /\ _handle_io(e.stream, e.mask, n, k, text)
    /\ ready' = ready \ {e}
    /\ cpc' = IF ready \ {e} = {} THEN "loop" ELSE "dispatch"
    /\ UNCHANGED <<srvVars, thrVars, extVars>>

NextClient ==
    \/ \E evs \in SUBSET Events : Select(evs)
    \/ \E e \in Events : Dispatch(e)
    \/ Exit

SpecClient == Init /\ [][NextClient]_vars

(***************************************************************************)
(* SpecClientLive: the client loop with the scheduling the claim about     *)
(* its termination assumes.  The for loop of lines 261-263 runs on and the *)
(* while loop ends when its condition fails (weak fairness); local output  *)
(* is registered for write readiness (lines 249-251) and the selector is   *)
(* level triggered, so a writable local output is reported again and       *)
(* again, and its write() accepts at least one byte again and again        *)
(* (strong fairness, these steps being enabled once per iteration).        *)
(***************************************************************************)
\* lines 259-260: select() reports local output as writable
SelectsOutput ==
    \E evs \in SUBSET Events :
        [stream |-> "stdout", mask |-> "W"] \in evs /\ Select(evs)

\* lines 278-280: write() accepts at least one byte of the inbound buffer
Drains ==
    /\ Dispatch([stream |-> "stdout", mask |-> "W"])
    /\ Len(stdoutbuf') < Len(stdoutbuf)

SpecClientLive ==
    /\ Init
    /\ [][NextClient]_vars
    /\ WF_vars(Exit)
    /\ WF_vars(\E e \in Events : Dispatch(e))
    /\ SF_vars(SelectsOutput)
    /\ SF_vars(Drains)

(***************************************************************************)
(* SpecSend: the socket-writable branch of _handle_io (rdb.py 272-275)     *)
(* draining a buffer that local input filled, against a socket that        *)
(* accepts at most `accepts` bytes per send().                             *)
(***************************************************************************)
InitSend ==
    InitCore /\ InitSendVars(1..MaxAccept) /\ InitSysVars
        /\ InitEntryVars({NoEnviron}, {<<>>})

\* lines 276-277: local input is read while it still arrives
Fill(text) ==
    /\ spc = "fill"
    /\ text # <<>>
    /\ _handle_io("stdin", "R", 0, 0, text)
    /\ UNCHANGED <<cpc, ready, accepts, cycles, spc, srvVars, thrVars, sysVars,
                   entryVars, libVars>>

\* local input stops: from here on nothing is appended to socketbuf
StartSend ==
    /\ spc = "fill"
    /\ spc' = "send"
    /\ UNCHANGED <<cliVars, accepts, cycles, srvVars, thrVars, sysVars,
                   entryVars, libVars>>

\* lines 272-275: one socket-writable callback on a non-empty buffer; send()
\* returns the number of bytes it accepted, at most `accepts`
SendCycle ==
    /\ spc = "send"
    /\ socketbuf # <<>>
    /\ _handle_io("socket", "W", 0, Min(accepts, Len(socketbuf)), <<>>)
    /\ cycles' = cycles + 1
    /\ UNCHANGED <<cpc, ready, accepts, spc, srvVars, thrVars, sysVars,
                   entryVars, libVars>>

NextSend ==
    \/ \E text \in Texts : Fill(text)
    \/ StartSend
    \/ SendCycle

SpecSend == InitSend /\ [][NextSend]_vars

(***************************************************************************)
(* SpecSys: the attributes of module sys that pytb swaps and restores:     *)
(* sys.breakpointhook (rdb.py 191-209) and sys.stdout / sys.stderr under   *)
(* the redirection contexts of io.py 129-185.                              *)
(***************************************************************************)
srvRest == <<session, objs, nObj, pc, cur, via, nBind, nListen, nAccept, last>>
hookVars ==
    <<breakpointhook, _previous_breakpoint_hook, hook_before, hook_last,
      hook_installed>>
ioVars == <<ctx, closed, exit_path>>

\* the values of sys.breakpointhook: the interpreter's own hook, set_trace of
\* rdb.py, and the hooks a host program installs itself
HostHooks == {"builtin", "host_hook"}

\* rdb.py 194-200.  Line 199 assigns _previous_breakpoint_hook inside the
\* function, which has no global statement: the name is local and the module
\* global of line 191 keeps its value.
install_hook ==
    /\ _previous_breakpoint_hook' = _previous_breakpoint_hook
    /\ breakpointhook' = "set_trace"
    /\ hook_before' = breakpointhook
    /\ hook_last' = "install"
    /\ hook_installed' = TRUE
    /\ UNCHANGED <<srvVars, thrVars, cliVars, sendVars, ioVars, entryVars, libVars>>

\* rdb.py 203-209
uninstall_hook ==
    /\ breakpointhook' =
          IF _previous_breakpoint_hook # "None"
          THEN _previous_breakpoint_hook
          ELSE breakpointhook
    /\ hook_last' = "uninstall"
    /\ UNCHANGED <<_previous_breakpoint_hook, hook_before, hook_installed>>
    /\ UNCHANGED <<srvVars, thrVars, cliVars, sendVars, ioVars, entryVars, libVars>>

\* the host program assigns sys.breakpointhook itself
HostHook(h) ==
    /\ h # breakpointhook
    /\ breakpointhook' = h
    /\ hook_last' = "host"
    /\ UNCHANGED <<_previous_breakpoint_hook, hook_before, hook_installed>>
    /\ UNCHANGED <<srvVars, thrVars, cliVars, sendVars, ioVars, entryVars, libVars>>

\* the file objects a host passes to a context, and a file given by name
Files == {201, 202}
Path == 200
FileArgs == Files \cup {Path}
\* the file object open() returns for the context at depth d
PathFile(d) == 300 + d
Kinds ==
    {"redirected_stdout", "redirected_stderr", "redirected_stdstreams",
     "mirrored_stdout", "mirrored_stdstreams"}

\* io.py 115-118: a name is opened, a file object is passed through
_permissive_open(file, d) == IF file = Path THEN PathFile(d) ELSE file

\* io.py 134-136: the assignments _redirect_stream makes before its yield
_redirect_stream(s, attr, out) ==
    [[s EXCEPT ![attr] = out] EXCEPT !["stdout"] = out]

\* io.py 139-140: the finally clause of _redirect_stream
_redirect_stream_finally(s, attr, old) == [s EXCEPT ![attr] = old]

\* io.py 210, 222, 224: the Tee objects the context at depth d constructs, the
\* first for stdout and the second for stderr
TeeBase == 400
Tee(d, k) == TeeBase + 2 * d + k
IsTee(e) == e > TeeBase

\* io.py 161, 172, 183-184, 209-212, 221-226: sys once the body of the
\* context runs, at depth d
Entered(kind, out) ==
    LET d == Len(ctx) + 1 IN
    CASE kind = "redirected_stdout" -> _redirect_stream(sys, "stdout", out)
      [] kind = "redirected_stderr" -> _redirect_stream(sys, "stderr", out)
      [] kind = "redirected_stdstreams" ->
            _redirect_stream(_redirect_stream(sys, "stdout", out), "stderr", out)
      [] kind = "mirrored_stdout" -> _redirect_stream(sys, "stdout", Tee(d, 0))
      [] kind = "mirrored_stdstreams" ->
            _redirect_stream(_redirect_stream(sys, "stdout", Tee(d, 0)),
                             "stderr", Tee(d, 1))

\* io.py 134: the values of `old` the context holds, outermost first
Saved(kind, out) ==
    LET d == Len(ctx) + 1 IN
    CASE kind \in {"redirected_stdout", "mirrored_stdout"} -> <<sys["stdout"]>>
      [] kind = "redirected_stderr" -> <<sys["stderr"]>>
      [] kind = "redirected_stdstreams" ->
            <<sys["stdout"], _redirect_stream(sys, "stdout", out)["stderr"]>>
      [] kind = "mirrored_stdstreams" ->
            <<sys["stdout"], _redirect_stream(sys, "stdout", Tee(d, 0))["stderr"]>>

\* io.py 210, 222, 224: the streams each Tee of the context is connected to:
\* Tee(sys.stdout, out), and Tee(sys.stderr, out) built once stdout is
\* redirected
Tees(kind, out) ==
    LET d == Len(ctx) + 1 IN
    CASE kind = "mirrored_stdout" -> <<<<sys["stdout"], out>>>>
      [] kind = "mirrored_stdstreams" ->
            <<<<sys["stdout"], out>>,
              <<_redirect_stream(sys, "stdout", Tee(d, 0))["stderr"], out>>>>
      [] OTHER -> <<>>

\* a with statement enters the context kind(file)
EnterContext(kind, file) ==
    /\ Len(ctx) < MaxDepth
    /\ LET out == _permissive_open(file, Len(ctx) + 1) IN
          /\ sys' = Entered(kind, out)
          /\ ctx' = Append(ctx, [kind |-> kind, out |-> out, opened |-> file = Path,
                                 old |-> Saved(kind, out), before |-> sys,
                                 tees |-> Tees(kind, out)])
          /\ closed' = closed \ {out}
    /\ UNCHANGED <<exit_path, srvRest, thrVars, cliVars, sendVars, hookVars,
                   entryVars, libVars>>

\* io.py 140, 184-183, 211, 225-223: sys after the finally clauses of the
\* context f
Left(f) ==
    IF f.kind \in {"redirected_stdout", "mirrored_stdout"}
    THEN _redirect_stream_finally(sys, "stdout", f.old[1])
    ELSE IF f.kind = "redirected_stderr"
         THEN _redirect_stream_finally(sys, "stderr", f.old[1])
         ELSE _redirect_stream_finally(
                  _redirect_stream_finally(sys, "stderr", f.old[2]),
                  "stdout", f.old[1])

\* io.py 37-47: the streams a write to the endpoint e is delivered to; a Tee
\* writes to every stream it is connected to
TeeFds(e) ==
    LET d == (e - TeeBase) \div 2
        k == (e - TeeBase) % 2
    IN  ctx[d].tees[k + 1]
RECURSIVE write(_)
write(e) ==
    IF IsTee(e) THEN write(TeeFds(e)[1]) \cup write(TeeFds(e)[2]) ELSE {e}

\* the body of the innermost context ends, normally or by an exception: the
\* finally clauses run either way (io.py 137-140, 122-126)
LeaveContext(exc) ==
    /\ ctx # <<>>
    /\ LET f == ctx[Len(ctx)] IN
          /\ sys' = Left(f)
          /\ closed' = IF f.opened THEN closed \cup {f.out} ELSE closed
    /\ ctx' = SubSeq(ctx, 1, Len(ctx) - 1)
    /\ exit_path' = IF exc THEN "exception" ELSE "normal"
    /\ UNCHANGED <<srvRest, thrVars, cliVars, sendVars, hookVars,
                   entryVars, libVars>>

NextSys ==
    \/ install_hook
    \/ uninstall_hook
    \/ \E h \in HostHooks : HostHook(h)
    \/ \E kind \in Kinds, file \in FileArgs : EnterContext(kind, file)
    \/ \E exc \in BOOLEAN : LeaveContext(exc)

SpecSys == Init /\ [][NextSys]_vars

(***************************************************************************)
(* SpecEntry: how the entry points find the address to use and how the     *)
(* command line ends: set_trace (rdb.py 178-186) with Rdb.__init__ (rdb.py *)
(* 81-91), RdbClient.__init__ (rdb.py 225-232), the configuration          *)
(* (config.py 21-41, 99-109) and main (__main__.py 130-254).               *)
(*                                                                         *)
(* Texts (values of the environment, of configuration files and of command *)
(* line options) are sequences of characters; numbers are integers.        *)
(***************************************************************************)
Digits == <<"0", "1", "2", "3", "4", "5", "6", "7", "8", "9">>
DigitVal(c) == (CHOOSE i \in 1..10 : Digits[i] = c) - 1

\* str(n) for n >= 0
RECURSIVE Str(_)
Str(n) == IF n < 10 THEN <<Digits[n + 1]>> ELSE Str(n \div 10) \o <<Digits[(n % 10) + 1]>>

\* int(text) raises ValueError unless the text is a decimal number
IsNumeric(text) ==
    text # <<>> /\ \A i \in 1..Len(text) : \E d \in 1..10 : Digits[d] = text[i]
RECURSIVE ToInt(_)
ToInt(text) ==
    IF Len(text) = 1
    THEN DigitVal(text[1])
    ELSE 10 * ToInt(SubSeq(text, 1, Len(text) - 1)) + DigitVal(text[Len(text)])

\* config.py 27-32: Config._defaults["rdb"]
_defaults == [bind_to |-> "0.0.0.0", host |-> "127.0.0.1", port |-> 8268]

\* config.py 104: read_dict stores every value as its text
ReadDict ==
    [bind_to |-> _defaults["bind_to"], host |-> _defaults["host"],
     port |-> Str(_defaults["port"])]

\* config.py 109: read() takes the files in order, each overriding the keys
\* it sets
Override(cfg, file) ==
    [k \in DOMAIN cfg |-> IF file[k] # <<>> THEN file[k][1] ELSE cfg[k]]
RECURSIVE Read(_, _)
Read(cfg, fs) == IF fs = <<>> THEN cfg ELSE Read(Override(cfg, Head(fs)), Tail(fs))

\* config.py 138 and rdb.py 82, 227: pytb_config["rdb"]
pytb_config == Read(ReadDict, files)

\* what the [rdb] section of one configuration file may set
FileLayers ==
    [bind_to : {<<>>, <<"10.0.0.1">>, <<"10.0.0.2">>},
     host : {<<>>, <<"10.0.1.1">>, <<"10.0.1.2">>},
     port : {<<>>, << <<"9">> >>, << <<"1", "2">> >>}]
RECURSIVE FileLists(_)
FileLists(n) ==
    IF n = 0
    THEN {<<>>}
    ELSE FileLists(n - 1)
            \cup {Append(fs, f) : fs \in {g \in FileLists(n - 1) : Len(g) = n - 1},
                                  f \in FileLayers}

\* what the environment may hold; "x" is a text that is no number
Environs ==
    [REMOTE_PDB_HOST : {<<>>, <<"env_host">>},
     REMOTE_PDB_PORT : {<<>>, << <<"7">> >>, << <<"x">> >>}]

\* the explicit arguments of a call, and the options of a command line
ArgHosts == {<<>>, <<"arg_host">>}
ArgPorts == {<<>>, <<5000>>}
OptPorts == {<<>>, << <<"6", "0">> >>}

InitEntry ==
    InitCore /\ InitSendVars({1}) /\ InitSysVars
        /\ InitEntryVars(Environs, FileLists(MaxFiles))

\* rdb.py 179-180 reading the environment first
set_trace_host_env_first(host) ==
    IF environ.REMOTE_PDB_HOST # <<>> THEN environ.REMOTE_PDB_HOST ELSE host

\* rdb.py 179-180
set_trace_host(host) ==
    IF host = <<>> THEN environ.REMOTE_PDB_HOST ELSE host

\* rdb.py 181-184
set_trace_port(port) ==
    IF port = <<>>
    THEN IF environ.REMOTE_PDB_PORT # <<>>
         THEN <<ToInt(environ.REMOTE_PDB_PORT[1])>>
         ELSE <<>>
    ELSE port

\* rdb.py 83-84
Rdb_host(host) == IF host = <<>> THEN pytb_config["bind_to"] ELSE host[1]
Rdb_port(port) == IF port = <<>> THEN ToInt(pytb_config["port"]) ELSE port[1]

\* rdb.py 229 reading the key of the server
RdbClient_host_bind_to(host) ==
    IF host = <<>> THEN pytb_config["bind_to"] ELSE host[1]

\* rdb.py 229-230
RdbClient_host(host) == IF host = <<>> THEN pytb_config["host"] ELSE host[1]
RdbClient_port(port) == IF port = <<>> THEN ToInt(pytb_config["port"]) ELSE port[1]

Called(op, host, port, outcome) ==
    [op |-> op, host |-> host, port |-> port, outcome |-> outcome]

\* set_trace(host=host, port=port) with no session (rdb.py 178-186), up to
\* the bind of rdb.py 91
Enter(host, port) ==
    /\ epc = "start"
    /\ session = None
    /\ epc' = "done"
    /\ IF port = <<>> /\ environ.REMOTE_PDB_PORT # <<>>
             /\ ~IsNumeric(environ.REMOTE_PDB_PORT[1])
       THEN \* int(env_port) of line 184 raises
            /\ call' = Called("set_trace", host, port, "ValueError")
            /\ bound' = bound
       ELSE /\ call' = Called("set_trace", host, port, "bind")
            /\ bound' = <<[host |-> Rdb_host(set_trace_host(host)),
                           port |-> Rdb_port(set_trace_port(port))]>>
    /\ UNCHANGED <<environ, files, target, cli, srvVars, thrVars, cliVars,
                   sendVars, sysVars, libVars>>

\* RdbClient(host, port) (rdb.py 225-232), up to the connection attempt
NewClient(host, port, outcome) ==
    /\ epc = "start"
    /\ epc' = "done"
    /\ call' = Called("RdbClient", host, port, outcome)
    /\ target' = <<[host |-> RdbClient_host(host), port |-> RdbClient_port(port)]>>
    /\ UNCHANGED <<environ, files, bound, cli, srvVars, thrVars, cliVars,
                   sendVars, sysVars, libVars>>

\* the exit statuses of the command line: sys.exit(2) of __main__.py 202,
\* sys.exit(1) of __main__.py 208 and 243, the status argparse exits with
\* when parser.error() is called (__main__.py 186, 190, 258, 263, 272), the
\* status of an interpreter that ends by an uncaught exception, and the
\* status of an interpreter whose main() returns
ExitRefused == 2
ExitError == 1
ExitUsage == 2
ExitUncaught == 1
ExitOk == 0

\* the calls of parser.error() in main
UsageErrors ==
    {"no_command", "no_function", "no_trigger", "no_notifier", "no_recipients"}

Exited(status, nConnect, relay, log) ==
    [status |-> <<status>>, nConnect |-> nConnect, relay |-> relay, log |-> log]

\* __main__.py 138, 177: the option, by default the configuration value
args_host(opt, key) == IF opt = <<>> THEN pytb_config[key] ELSE opt[1]
\* __main__.py 142-144, 180: type=int is applied to the option or the default
args_port(opt) == ToInt(IF opt = <<>> THEN pytb_config["port"] ELSE opt[1])

\* __main__.py 185-190, 256-274: a command line main rejects
MainUsage(error) ==
    /\ epc = "start"
    /\ epc' = "done"
    /\ call' = Called("main", <<>>, <<>>, error)
    /\ cli' = Exited(ExitUsage, 0, FALSE, "usage")
    /\ UNCHANGED <<environ, files, bound, target, srvVars, thrVars, cliVars,
                   sendVars, sysVars, libVars>>

\* __main__.py 192-202: pytb rdb client [--host h] [--port p]
MainClient(hopt, popt, outcome) ==
    /\ epc = "start"
    /\ epc' = "done"
    /\ call' = Called("main_client", hopt, popt, outcome)
    /\ target' = <<[host |-> RdbClient_host(<<args_host(hopt, "host")>>),
                    port |-> RdbClient_port(<<args_port(popt)>>)]>>
    /\ cli' = IF outcome = "refused"
              THEN \* lines 200-202
                   Exited(ExitRefused, 1, FALSE, "refused")
              ELSE IF outcome = "connected"
                   THEN \* the loop of rdb.py 258 ran and ended; line 199
                        Exited(ExitOk, 1, TRUE, "closed")
                   ELSE \* another OSError is not caught
                        Exited(ExitUncaught, 1, FALSE, "traceback")
    /\ UNCHANGED <<environ, files, bound, srvVars, thrVars, cliVars, sendVars,
                   sysVars, libVars>>

\* __main__.py 204-254: pytb rdb server [--host h] [--port p] script
MainServer(hopt, popt, found, outcome) ==
    /\ epc = "start"
    /\ epc' = "done"
    /\ call' = Called("main_server", hopt, popt, IF found THEN outcome ELSE "missing")
    /\ IF ~found
       THEN \* lines 206-208
            /\ cli' = Exited(ExitError, 0, FALSE, "missing")
            /\ bound' = bound
       ELSE \* line 217, then the loop of lines 221-254
            /\ bound' = <<[host |-> Rdb_host(<<args_host(hopt, "bind_to")>>),
                           port |-> Rdb_port(<<args_port(popt)>>)]>>
            /\ cli' = IF outcome = "SyntaxError"
                      THEN Exited(ExitError, 0, FALSE, "traceback")
                      ELSE Exited(ExitOk, 0, FALSE, "none")
    /\ UNCHANGED <<environ, files, target, srvVars, thrVars, cliVars, sendVars,
                   sysVars, libVars>>

\* __main__.py 276-320: pytb notify ... script
MainNotify(outcome) ==
    /\ epc = "start"
    /\ epc' = "done"
    /\ call' = Called("main_notify", <<>>, <<>>, outcome)
    /\ cli' = IF outcome = "exception"
              THEN Exited(ExitUncaught, 0, FALSE, "traceback")
              ELSE Exited(ExitOk, 0, FALSE, "none")
    /\ UNCHANGED <<environ, files, bound, target, srvVars, thrVars, cliVars,
                   sendVars, sysVars, libVars>>

NextEntry ==
    \/ \E host \in ArgHosts, port \in ArgPorts : Enter(host, port)
    \/ \E host \in ArgHosts, port \in ArgPorts,
          outcome \in {"connected", "refused", "timeout"} :
          NewClient(host, port, outcome)
    \/ \E error \in UsageErrors : MainUsage(error)
    \/ \E hopt \in ArgHosts, popt \in OptPorts,
          outcome \in {"connected", "refused", "timeout"} :
          MainClient(hopt, popt, outcome)
    \/ \E hopt \in ArgHosts, popt \in OptPorts, found \in BOOLEAN,
          outcome \in {"quit", "SyntaxError"} :
          MainServer(hopt, popt, found, outcome)
    \/ \E outcome \in {"finished", "exception"} : MainNotify(outcome)

SpecEntry == InitEntry /\ [][NextEntry]_vars

(***************************************************************************)
(* SpecNotify: pytb.notification.  The contexts Notify.when_done and       *)
(* Notify.when_stalled around a monitored block, and class Timer with its  *)
(* thread.  The text of the captured output is modelled by its length: the *)
(* buffer of when_stalled is only appended to, so two readings are equal   *)
(* exactly when their lengths are.                                         *)
(***************************************************************************)
\* how often Timer.target may be invoked in one run
MaxCalls == 3
\* how many pieces of output the monitored block may print
MaxOutput == 2
\* the largest interval handed to call_every
MaxInterval == 1

\* how a monitored block can end
Outcomes == {"clean", "Exception", "KeyboardInterrupt"}

\* notification.py 725-739: Timer.__init__
Timer__init__(tgt) ==
    /\ timer_target' = tgt
    /\ interval' = -1
    /\ _stop_event' = <<FALSE>>
    /\ calls' = 0
    /\ observed' = <<>>

\* notification.py 741-752: Timer.stop; what it does to _stop_event and how
\* it ends
stop_raises == _stop_event = <<>>
stop_event == IF stop_raises THEN _stop_event ELSE <<TRUE>>
stop_result == IF stop_raises THEN "RuntimeError" ELSE "returned"

\* user code constructs a Timer
Timer_new ==
    /\ npc = "idle"
    /\ npc' = "timer"
    /\ Timer__init__("user_target")
    /\ timer_pc' = "new"
    /\ UNCHANGED <<started, stop_outcome, nctx, output, last_output,
                   was_stalled, notifications, exception, propagated,
                   restNotify>>

\* notification.py 754-769: user code calls call_every(i)
Timer_call_every(i) ==
    /\ npc = "timer"
    /\ started = "no"
    /\ interval' = i
    /\ started' = "call_every"
    /\ timer_pc' = "run"
    /\ UNCHANGED <<_stop_event, timer_target, calls, stop_outcome, observed,
                   notifyVars, restNotify>>

\* user code calls Thread.start() itself
Timer_start ==
    /\ npc = "timer"
    /\ started = "no"
    /\ started' = "start"
    /\ timer_pc' = "run"
    /\ UNCHANGED <<interval, _stop_event, timer_target, calls, stop_outcome,
                   observed, notifyVars, restNotify>>

\* user code calls stop()
Timer_stop ==
    /\ npc = "timer"
    /\ stop_outcome = "none"
    /\ _stop_event' = stop_event
    /\ stop_outcome' = stop_result
    /\ UNCHANGED <<interval, timer_pc, started, timer_target, calls, observed,
                   notifyVars, restNotify>>

\* notification.py 771-772: run() tests how the thread was started
Timer_run ==
    /\ timer_pc = "run"
    /\ timer_pc' = IF interval = -1 THEN "call_once" ELSE "wait"
    /\ UNCHANGED <<interval, _stop_event, started, timer_target, calls,
                   stop_outcome, observed, notifyVars, restNotify>>

\* notification.py 778: wait() returns, after the interval or because the
\* event was set
Timer_wait ==
    /\ timer_pc = "wait"
    /\ timer_pc' = "is_set"
    /\ UNCHANGED <<interval, _stop_event, started, timer_target, calls,
                   stop_outcome, observed, notifyVars, restNotify>>

\* notification.py 781-782, 785-786: the thread tests the event; when it is
\* set the loop is left, the event cleared and the interval reset
Timer_is_set ==
    /\ timer_pc = "is_set"
    /\ IF _stop_event = <<TRUE>>
       THEN /\ timer_pc' = "done"
            /\ _stop_event' = <<FALSE>>
            /\ interval' = -1
            /\ observed' = <<calls>>
       ELSE /\ timer_pc' = "call"
            /\ UNCHANGED <<_stop_event, interval, observed>>
    /\ UNCHANGED <<started, timer_target, calls, stop_outcome, notifyVars,
                   restNotify>>

\* notification.py 367-386: check_stalled, the target when_stalled gives its
\* Timer
stall_detected == output = last_output /\ ~was_stalled
check_stalled ==
    /\ notifications' =
          IF stall_detected
          THEN Append(notifications, "probably stalled")
          ELSE IF was_stalled
               THEN Append(notifications, "no longer stalled")
               ELSE notifications
    /\ was_stalled' =
          IF stall_detected THEN TRUE
          ELSE IF was_stalled THEN FALSE ELSE was_stalled
    /\ last_output' = output

\* notification.py 301-309: send_progress, the target every gives its Timer
\* (incremental_output false, the default: the buffer is left as it is)
send_progress ==
    /\ notifications' = Append(notifications, "progress update")
    /\ UNCHANGED <<was_stalled, last_output>>

\* notification.py 775, 783: the thread invokes the target
Timer_call ==
    /\ timer_pc \in {"call", "call_once"}
    /\ calls < MaxCalls
    /\ calls' = calls + 1
    /\ timer_pc' = IF timer_pc = "call_once" THEN "done" ELSE "wait"
    /\ IF timer_target = "check_stalled"
       THEN check_stalled
       ELSE IF timer_target = "send_progress"
            THEN send_progress
            ELSE UNCHANGED <<notifications, was_stalled, last_output>>
    /\ UNCHANGED <<interval, _stop_event, started, timer_target, stop_outcome,
                   observed, npc, nctx, output, exception, propagated,
                   restNotify>>

\* notification.py 186-232: a with statement enters when_done(only_if_error)
Enter_when_done(oie) ==
    /\ npc = "idle"
    /\ npc' = "body"
    /\ nctx' = [kind |-> "when_done", only_if_error |-> oie,
               outcome |-> "none"]
    /\ exception' = "None"
    /\ UNCHANGED <<output, last_output, was_stalled, notifications,
                   propagated, timerVars, restNotify>>

\* notification.py 321-396: a with statement enters when_stalled(timeout):
\* the buffer is read, the Timer constructed and started with call_every,
\* and when_done(True, ...) entered
Enter_when_stalled(timeout) ==
    /\ npc = "idle"
    /\ npc' = "body"
    /\ nctx' = [kind |-> "when_stalled", only_if_error |-> TRUE,
               outcome |-> "none"]
    /\ last_output' = 0
    /\ was_stalled' = FALSE
    /\ exception' = "None"
    /\ timer_target' = "check_stalled"
    /\ _stop_event' = <<FALSE>>
    /\ calls' = 0
    /\ observed' = <<>>
    /\ interval' = timeout
    /\ started' = "call_every"
    /\ timer_pc' = "run"
    /\ UNCHANGED <<output, notifications, propagated, stop_outcome, restNotify>>

\* notification.py 270-315: a with statement enters every(i): the Timer is
\* constructed with send_progress and started with call_every, and
\* when_done(False, True) entered
Enter_every(i) ==
    /\ npc = "idle"
    /\ npc' = "body"
    /\ nctx' = [kind |-> "every", only_if_error |-> FALSE,
               outcome |-> "none"]
    /\ exception' = "None"
    /\ timer_target' = "send_progress"
    /\ _stop_event' = <<FALSE>>
    /\ calls' = 0
    /\ observed' = <<>>
    /\ interval' = i
    /\ started' = "call_every"
    /\ timer_pc' = "run"
    /\ UNCHANGED <<output, last_output, was_stalled, notifications,
                   propagated, stop_outcome, restNotify>>

\* the monitored block prints something
BodyWrite ==
    /\ npc = "body"
    /\ output < MaxOutput
    /\ output' = output + 1
    /\ UNCHANGED <<npc, nctx, last_output, was_stalled, notifications,
                   exception, propagated, timerVars, restNotify>>

\* notification.py 245-260: what when_done sends once the block has ended
when_done_reasons_ignores_only_if_error(outcome, oie) ==
    IF outcome = "Exception" THEN <<"failed">>
    ELSE IF outcome = "clean" THEN <<"done">> ELSE <<>>

when_done_reasons(outcome, oie) ==
    IF outcome = "KeyboardInterrupt" THEN <<>>
    ELSE IF outcome = "clean" /\ oie THEN <<>>
    ELSE IF outcome = "Exception" THEN <<"failed">>
    ELSE <<"done">>

\* notification.py 233-260: the monitored block ends; when_done catches an
\* Exception (not a KeyboardInterrupt, which passes through) and sends its
\* notification
BodyEnds(outcome) ==
    /\ npc = "body"
    /\ npc' = "leaving"
    /\ nctx' = [nctx EXCEPT !.outcome = outcome]
    /\ exception' = IF outcome = "Exception" THEN "Exception" ELSE "None"
    /\ notifications' =
          notifications \o when_done_reasons(outcome, nctx.only_if_error)
    /\ UNCHANGED <<output, last_output, was_stalled, propagated, timerVars,
                   restNotify>>

\* notification.py 249, 256, 317-319, 398-403: the context manager returns or
\* raises to its caller; when_stalled and every stop their Timer on the way
\* out
Leave ==
    /\ npc = "leaving"
    /\ npc' = "exited"
    /\ propagated' = IF nctx.outcome = "clean" THEN "none" ELSE nctx.outcome
    /\ IF nctx.kind \in {"when_stalled", "every"}
       THEN /\ _stop_event' = stop_event
            /\ stop_outcome' = stop_result
       ELSE UNCHANGED <<_stop_event, stop_outcome>>
    /\ UNCHANGED <<nctx, output, last_output, was_stalled, notifications,
                   exception, interval, timer_pc, started, timer_target,
                   calls, observed, restNotify>>

NextNotify ==
    \/ Timer_new
    \/ \E i \in 1..MaxInterval : Timer_call_every(i)
    \/ Timer_start
    \/ Timer_stop
    \/ Timer_run
    \/ Timer_wait
    \/ Timer_is_set
    \/ Timer_call
    \/ \E oie \in BOOLEAN : Enter_when_done(oie)
    \/ \E timeout \in 1..MaxInterval : Enter_when_stalled(timeout)
    \/ BodyWrite
    \/ \E outcome \in Outcomes : BodyEnds(outcome)
    \/ Leave

SpecNotify == Init /\ [][NextNotify]_vars

(***************************************************************************)
(* SpecEvery: the context Notify.every around a monitored block, with the  *)
(* thread of its Timer.                                                    *)
(***************************************************************************)
NextEvery ==
    \/ \E i \in 1..MaxInterval : Enter_every(i)
    \/ BodyWrite
    \/ \E outcome \in Outcomes : BodyEnds(outcome)
    \/ Leave
    \/ Timer_run
    \/ Timer_wait
    \/ Timer_is_set
    \/ Timer_call

SpecEvery == Init /\ [][NextEvery]_vars

(***************************************************************************)
(* SpecSchedule: class Schedule of pytb.schedule.  One step per statement  *)
(* of Schedule.run, and another thread that calls stop().  A due date is   *)
(* "past" or "future" at the moment it is taken from the generator.        *)
(***************************************************************************)
\* how many due dates the interval generator yields at most
MaxDue == 3

RECURSIVE Dues(_)
Dues(n) ==
    IF n = 0 THEN {<<>>}
    ELSE Dues(n - 1) \cup
         {Append(g, d) : g \in Dues(n - 1), d \in {"past", "future"}}

\* schedule.py 29-36: Schedule(target, interval) over a generator yielding g
Schedule__init__(g) ==
    /\ sched_pc = "none"
    /\ sched_pc' = "new"
    /\ gen' = g
    /\ schedule_stop_event' = FALSE
    /\ is_running' = FALSE
    /\ UNCHANGED <<taken, runs, finished, stop_pc, stop_during, exhausted,
                   restSchedule>>

\* schedule.py 38-45: start_schedule starts the thread
start_schedule ==
    /\ sched_pc = "new"
    /\ sched_pc' = "while"
    /\ UNCHANGED <<gen, schedule_stop_event, is_running, taken, runs,
                   finished, stop_pc, stop_during, exhausted, restSchedule>>

\* schedule.py 53: the loop condition of run
run_while ==
    /\ sched_pc = "while"
    /\ sched_pc' = IF schedule_stop_event THEN "stop" ELSE "next_schedule"
    /\ UNCHANGED <<gen, schedule_stop_event, is_running, taken, runs,
                   finished, stop_pc, stop_during, exhausted, restSchedule>>

\* schedule.py 54-58, 71-75: the next due date is taken; an exhausted
\* generator sets the stop event
run_next_schedule ==
    /\ sched_pc = "next_schedule"
    /\ IF gen = <<>>
       THEN /\ schedule_stop_event' = TRUE
            /\ exhausted' = TRUE
            /\ sched_pc' = "while"
            /\ UNCHANGED <<gen, taken>>
       ELSE /\ taken' = Head(gen)
            /\ gen' = Tail(gen)
            /\ sched_pc' = "wait"
            /\ UNCHANGED <<schedule_stop_event, exhausted>>
    /\ UNCHANGED <<is_running, runs, finished, stop_pc, stop_during,
                   restSchedule>>

\* schedule.py 60-61: wait(wait_time) returns: once the due date has come or
\* the event is set, and at once when wait_time is negative
run_wait ==
    /\ sched_pc = "wait"
    /\ sched_pc' = "is_set"
    /\ UNCHANGED <<gen, schedule_stop_event, is_running, taken, runs,
                   finished, stop_pc, stop_during, exhausted, restSchedule>>

\* schedule.py 62-64: unless stopped, the target is invoked
run_is_set ==
    /\ sched_pc = "is_set"
    /\ IF schedule_stop_event
       THEN /\ sched_pc' = "while"
            /\ UNCHANGED <<is_running, runs>>
       ELSE /\ sched_pc' = "target"
            /\ is_running' = TRUE
            /\ runs' = Append(runs, taken)
    /\ UNCHANGED <<gen, schedule_stop_event, taken, finished, stop_pc,
                   stop_during, exhausted, restSchedule>>

\* schedule.py 64-65: the target returns
run_target ==
    /\ sched_pc = "target"
    /\ sched_pc' = "while"
    /\ finished' = finished + 1
    /\ is_running' = FALSE
    /\ UNCHANGED <<gen, schedule_stop_event, taken, runs, stop_pc,
                   stop_during, exhausted, restSchedule>>

\* schedule.py 67, 77-86: run ends with self.stop(); join() on the current
\* thread raises RuntimeError, which stop() swallows
run_stop ==
    /\ sched_pc = "stop"
    /\ sched_pc' = "done"
    /\ schedule_stop_event' = TRUE
    /\ UNCHANGED <<gen, is_running, taken, runs, finished, stop_pc,
                   stop_during, exhausted, restSchedule>>

\* schedule.py 77-81: another thread calls stop(): the event is set
stop_set ==
    /\ sched_pc \notin {"none", "new"}
    /\ stop_pc = "none"
    /\ stop_pc' = "join"
    /\ schedule_stop_event' = TRUE
    /\ stop_during' = (sched_pc = "target")
    /\ UNCHANGED <<sched_pc, gen, is_running, taken, runs, finished,
                   exhausted, restSchedule>>

\* schedule.py 83-86: join() returns once the schedule thread has finished
stop_join_returns_at_once ==
    /\ stop_pc = "join"
    /\ stop_pc' = "returned"
    /\ UNCHANGED <<sched_pc, gen, schedule_stop_event, is_running, taken,
                   runs, finished, stop_during, exhausted, restSchedule>>

stop_join ==
    /\ stop_pc = "join"
    /\ sched_pc = "done"
    /\ stop_pc' = "returned"
    /\ UNCHANGED <<sched_pc, gen, schedule_stop_event, is_running, taken,
                   runs, finished, stop_during, exhausted, restSchedule>>

NextSchedule ==
    \/ \E g \in Dues(MaxDue) : Schedule__init__(g)
    \/ start_schedule
    \/ run_while
    \/ run_next_schedule
    \/ run_wait
    \/ run_is_set
    \/ run_target
    \/ run_stop
    \/ stop_set
    \/ stop_join

SpecSchedule == Init /\ [][NextSchedule]_vars

(***************************************************************************)
(* SpecCron: parse_cron_spec of pytb.schedule, applied to the expressions  *)
(* of the documented forms.  A string is the sequence of its characters.   *)
(***************************************************************************)
\* the largest single-digit number used in an expression or as a limit
MaxCronVal == 2
\* the largest step of an i-j/s expression
MaxStep == 2

\* the numbers expressions are made of: the small ones and a two-digit one
CronVals == (0..MaxCronVal) \cup {10 + MaxCronVal}

\* the expressions of the documented forms (schedule.py 100-104)
Exprs ==
    {[form |-> "i", v |-> <<i>>, s |-> 1] : i \in CronVals}
    \cup {[form |-> "*", v |-> <<>>, s |-> 1]}
    \cup {[form |-> "i,j,k", v |-> <<i, j, k>>, s |-> 1] :
             i \in CronVals, j \in CronVals, k \in CronVals}
    \cup {[form |-> "i-j", v |-> <<i, j>>, s |-> 1] :
             i \in CronVals, j \in CronVals}
    \cup {[form |-> "i-j/s", v |-> <<i, j>>, s |-> st] :
             i \in CronVals, j \in CronVals, st \in 1..MaxStep}

\* the text of an expression
Format(e) ==
    CASE e.form = "i" -> Str(e.v[1])
      [] e.form = "*" -> <<"*">>
      [] e.form = "i,j,k" ->
            Str(e.v[1]) \o <<",">> \o Str(e.v[2]) \o <<",">> \o Str(e.v[3])
      [] e.form = "i-j" -> Str(e.v[1]) \o <<"-">> \o Str(e.v[2])
      [] e.form = "i-j/s" ->
            Str(e.v[1]) \o <<"-">> \o Str(e.v[2]) \o <<"/">> \o Str(e.s)

\* `c in text` and text.count(c)
Contains(text, c) == \E i \in 1..Len(text) : text[i] = c
Count(text, c) == Cardinality({i \in 1..Len(text) : text[i] = c})

\* text.split(c)
RECURSIVE split(_, _)
split(text, c) ==
    IF ~Contains(text, c) THEN <<text>>
    ELSE LET i == CHOOSE i \in 1..Len(text) :
                     text[i] = c /\ \A j \in 1..(i - 1) : text[j] # c
         IN  <<SubSeq(text, 1, i - 1)>> \o split(SubSeq(text, i + 1, Len(text)), c)

\* range(start, stop, step) for step > 0
RECURSIVE range(_, _, _)
range(start, stop, step) ==
    IF start >= stop THEN <<>>
    ELSE <<start>> \o range(start + step, stop, step)

\* schedule.py 134: the test for a value outside the limits
out_of_bounds(val, max_value, min_value) ==
    min_value > val /\ val > max_value

\* schedule.py 119-142: parse_cron_spec; int(), an unpacking of the wrong
\* length and range() with step 0 raise ValueError
parse_cron_spec(spec, max_value, min_value) ==
    LET digit == IF IsNumeric(spec) THEN <<ToInt(spec)>> ELSE <<>>
        star == IF spec = <<"*">>
                THEN range(min_value, max_value + 1, 1) ELSE digit
        items == split(spec, ",")
        commaErr == /\ Contains(spec, ",")
                    /\ \E i \in 1..Len(items) : ~IsNumeric(items[i])
        comma == IF Contains(spec, ",")
                 THEN [i \in 1..Len(items) |-> ToInt(items[i])] ELSE star
        dash == Count(spec, "-") = 1
        slash == dash /\ Contains(spec, "/")
        parts == split(spec, "/")
        slashErr == slash /\ (Len(parts) # 2 \/ ~IsNumeric(parts[2]))
        step == IF slash THEN ToInt(parts[2]) ELSE 1
        ends == split(IF slash THEN parts[1] ELSE spec, "-")
        dashErr == /\ dash
                   /\ \/ Len(ends) # 2
                      \/ ~IsNumeric(ends[1])
                      \/ ~IsNumeric(ends[2])
                      \/ step = 0
        parsed_values ==
            IF dash THEN range(ToInt(ends[1]), ToInt(ends[2]) + 1, step)
            ELSE comma
        raises ==
            \/ commaErr
            \/ slashErr
            \/ dashErr
            \/ \E i \in 1..Len(parsed_values) :
                  out_of_bounds(parsed_values[i], max_value, min_value)
            \/ Len(parsed_values) = 0
    IN  [raises |-> raises, values |-> IF raises THEN <<>> ELSE parsed_values]

\* a caller parses the expression e between the limits
Parse(e, max_value, min_value) ==
    /\ cron = <<>>
    /\ cron' = <<[expr |-> e, spec |-> Format(e), max_value |-> max_value,
                 min_value |-> min_value,
                 result |-> parse_cron_spec(Format(e), max_value, min_value)]>>
    /\ UNCHANGED restCron

NextCron ==
    \E e \in Exprs, max_value \in 0..MaxCronVal, min_value \in 0..MaxCronVal :
        min_value <= max_value /\ Parse(e, max_value, min_value)

SpecCron == Init /\ [][NextCron]_vars

(***************************************************************************)
(* SpecLoader: ModuleLoader of pytb.importlib in sys.meta_path (install,   *)
(* uninstall and the with statement).  SpecImport: the same together with  *)
(* core.init, which installs loaders and hooks of its own.                 *)
(***************************************************************************)
\* how many ModuleLoader instances the program holds
MaxLoaders == 2
\* how deep with-scopes of loaders may nest
MaxScopes == 2
\* how often init() may be called
MaxInit == 2

Loaders == 1..MaxLoaders

\* importlib.py 160-175: the n-th loader install_hook() has constructed
HookLoaderBase == 100
HookLoader(n) == HookLoaderBase + n

\* importlib.py 127-128: install raises when the loader is in sys.meta_path
install_never_raises(l) == FALSE

install_raises(l) == Contains(meta_path, l)

\* importlib.py 127-129: sys.meta_path after install
installed_path(l) ==
    IF install_raises(l) THEN meta_path ELSE Append(meta_path, l)

\* importlib.py 150-155: list.remove raises ValueError when the loader is not
\* in the list, and removes its first occurrence otherwise
uninstall_raises(l) == ~Contains(meta_path, l)
uninstalled_path(l) ==
    IF uninstall_raises(l) THEN meta_path
    ELSE LET i == CHOOSE i \in 1..Len(meta_path) :
                     /\ meta_path[i] = l
                     /\ \A j \in 1..(i - 1) : meta_path[j] # l
         IN  SubSeq(meta_path, 1, i - 1)
                 \o SubSeq(meta_path, i + 1, Len(meta_path))

Outcome(raises) == IF raises THEN "RuntimeError" ELSE "returned"

\* importlib.py 113-129
install(l) ==
    /\ meta_path' = installed_path(l)
    /\ loader_last' = [op |-> "install", loader |-> l,
                      outcome |-> Outcome(install_raises(l))]
    /\ UNCHANGED <<scopes, _initializer_frame, init_config, performed, nInit,
                   init_last, sysVars, restLoader>>

\* importlib.py 134-155
uninstall(l) ==
    /\ meta_path' = uninstalled_path(l)
    /\ loader_last' = [op |-> "uninstall", loader |-> l,
                      outcome |-> Outcome(uninstall_raises(l))]
    /\ UNCHANGED <<scopes, _initializer_frame, init_config, performed, nInit,
                   init_last, sysVars, restLoader>>

\* importlib.py 101-103: `with l:` begins; when install raises the scope is
\* not entered
__enter__(l) ==
    /\ Len(scopes) < MaxScopes
    /\ meta_path' = installed_path(l)
    /\ scopes' = IF install_raises(l) THEN scopes ELSE Append(scopes, l)
    /\ loader_last' = [op |-> "enter", loader |-> l,
                      outcome |-> Outcome(install_raises(l))]
    /\ UNCHANGED <<_initializer_frame, init_config, performed, nInit,
                   init_last, sysVars, restLoader>>

\* importlib.py 105-111: the innermost with-scope ends, by the end of its
\* body or by an exception
__exit__ ==
    /\ scopes # <<>>
    /\ LET l == scopes[Len(scopes)] IN
          /\ meta_path' = uninstalled_path(l)
          /\ loader_last' = [op |-> "exit", loader |-> l,
                            outcome |-> Outcome(uninstall_raises(l))]
    /\ scopes' = SubSeq(scopes, 1, Len(scopes) - 1)
    /\ UNCHANGED <<_initializer_frame, init_config, performed, nInit,
                   init_last, sysVars, restLoader>>

\* what core.init leaves alone
restCore ==
    <<srvVars, thrVars, cliVars, sendVars, ioVars, entryVars, notifyVars,
      timerVars, schedVars, cronVars, cleanVars>>

\* config.py 22-26: the [init] section, each option a boolean
InitConfigs ==
    [disable_module_cache : BOOLEAN, install_notebook_loader : BOOLEAN,
     install_rdb_hook : BOOLEAN]

\* core.py 10: pytb.config is imported and current_config is read
import_config(c) ==
    /\ init_config = <<>>
    /\ init_config' = <<c>>
    /\ UNCHANGED <<meta_path, scopes, loader_last, _initializer_frame,
                   performed, nInit, init_last, sysVars, restLoader>>

\* core.py 71: the frame of the caller of init
CallerFrame == 1

\* core.py 38-49: whether init raises
init_raises(reinitalisation_attempt_ok) ==
    _initializer_frame # <<>> /\ ~reinitalisation_attempt_ok

\* core.py 51-71: the initialisation actions, each if configured
initialise ==
    LET config == init_config[1]
        n == performed.notebook_loader + 1
    IN  /\ performed' =
              [module_cache |-> performed.module_cache
                     + (IF config.disable_module_cache THEN 1 ELSE 0),
               notebook_loader |-> performed.notebook_loader
                     + (IF config.install_notebook_loader THEN 1 ELSE 0),
               rdb_hook |-> performed.rdb_hook
                     + (IF config.install_rdb_hook THEN 1 ELSE 0)]
        /\ meta_path' = IF config.install_notebook_loader
                        THEN Append(meta_path, HookLoader(n))
                        ELSE meta_path
        /\ IF config.install_rdb_hook
           THEN /\ _previous_breakpoint_hook' = _previous_breakpoint_hook
                /\ breakpointhook' = "set_trace"
                /\ hook_before' = breakpointhook
                /\ hook_last' = "install"
                /\ hook_installed' = TRUE
           ELSE UNCHANGED hookVars
        /\ _initializer_frame' = <<CallerFrame>>

\* core.py 18-71: init(verbose, reinitalisation_attempt_ok)
init(reinitalisation_attempt_ok) ==
    /\ init_config # <<>>
    /\ nInit < MaxInit
    /\ nInit' = nInit + 1
    /\ IF init_raises(reinitalisation_attempt_ok)
       THEN UNCHANGED <<meta_path, performed, _initializer_frame, hookVars>>
       ELSE initialise
    /\ init_last' =
          [outcome |-> Outcome(init_raises(reinitalisation_attempt_ok)),
           again |-> _initializer_frame # <<>>,
           ok |-> reinitalisation_attempt_ok]
    /\ UNCHANGED <<scopes, loader_last, init_config, restCore>>

NextLoader ==
    \/ \E l \in Loaders : install(l)
    \/ \E l \in Loaders : uninstall(l)
    \/ \E l \in Loaders : __enter__(l)
    \/ __exit__

SpecLoader == Init /\ [][NextLoader]_vars

NextImport ==
    \/ \E l \in Loaders : install(l)
    \/ \E l \in Loaders : uninstall(l)
    \/ \E l \in Loaders : __enter__(l)
    \/ __exit__
    \/ \E c \in InitConfigs : import_config(c)
    \/ \E ok \in BOOLEAN : init(ok)

SpecImport == Init /\ [][NextImport]_vars

(***************************************************************************)
(* SpecCleanup: Rdb._cleanup one statement at a time (rdb.py 120-136), on  *)
(* objects constructed directly, with peers that may disconnect.  A flush  *)
(* of a closed file raises ValueError; a flush of an open connection file  *)
(* whose peer has gone may raise BrokenPipeError, depending on what is     *)
(* buffered.                                                               *)
(***************************************************************************)
\* what a step of _cleanup leaves alone, beyond the variables of the server
restCleanup ==
    <<thrVars, cliVars, sendVars, sysVars, entryVars, notifyVars, timerVars,
      schedVars, cronVars, importVars>>

\* rdb.py 55: Rdb._std_streams in the order of the list
std_streams == <<"stdin", "stdout", "stderr">>

\* Rdb(...) is constructed and a peer connects (rdb.py 67-111)
K_Rdb(patch_stdio) ==
    /\ kpc = "idle"
    /\ nObj < MaxObj
    /\ RdbInit(nObj + 1, patch_stdio, TRUE)
    /\ session' = nObj + 1
    /\ UNCHANGED <<pc, cur, via, last, cleanVars, restCleanup>>

\* the peer of o closes its end of the connection
K_disconnect(o) ==
    /\ objs[o].built
    /\ objs[o].open
    /\ o \notin peer_gone
    /\ peer_gone' = peer_gone \cup {o}
    /\ UNCHANGED <<kpc, kself, kop, ksteps, kflushed, kstale, kerr, srvVars,
                   restCleanup>>

\* rdb.py 144-152: do_quit or do_EOF of the object o calls _cleanup
K_cleanup(o, op) ==
    /\ kpc = "idle"
    /\ objs[o].built
    /\ kpc' = "flush"
    /\ kself' = o
    /\ kop' = op
    /\ ksteps' = <<>>
    /\ kflushed' = <<>>
    /\ kerr' = "none"
    /\ UNCHANGED <<kstale, peer_gone, srvVars, restCleanup>>

\* rdb.py 117-118: flushing the i-th stream must raise, or may raise
MustRaise(i) ==
    IsChan(sys[std_streams[i]]) /\ ~objs[sys[std_streams[i]]].open
MayRaise(i) ==
    \/ MustRaise(i)
    \/ IsChan(sys[std_streams[i]]) /\ sys[std_streams[i]] \in peer_gone

\* rdb.py 125, 113-118: _flush_outputs; fail is the stream whose flush
\* raises, 0 when none does
K_flush(fail) ==
    /\ kpc = "flush"
    /\ \/ fail = 0 /\ \A i \in 1..3 : ~MustRaise(i)
       \/ fail \in 1..3 /\ MayRaise(fail) /\ \A j \in 1..(fail - 1) : ~MustRaise(j)
    /\ kflushed' = [i \in 1..(IF fail = 0 THEN 3 ELSE fail) |-> sys[std_streams[i]]]
    /\ ksteps' = Append(ksteps, "flush")
    /\ IF fail = 0
       THEN /\ kpc' = "restore"
            /\ UNCHANGED <<kerr, kstale>>
       ELSE /\ kpc' = "idle"
            /\ kerr' = IF MustRaise(fail) THEN "ValueError" ELSE "BrokenPipeError"
            /\ kstale' = (kstale \/ MustRaise(fail))
    /\ UNCHANGED <<kself, kop, peer_gone, srvVars, restCleanup>>

\* rdb.py 127-129
K_restore ==
    /\ kpc = "restore"
    /\ kpc' = "close"
    /\ sys' = Restored(kself)
    /\ ksteps' = IF objs[kself].stdio_patched
                 THEN Append(ksteps, "restore") ELSE ksteps
    /\ UNCHANGED <<kself, kop, kflushed, kstale, peer_gone, kerr, session,
                   objs, nObj, pc, cur, via, nBind, nListen, nAccept, last,
                   restCleanup>>

\* rdb.py 131-134: the engine is given the current streams and the
\* connection file is closed
K_close ==
    /\ kpc = "close"
    /\ kpc' = "clear"
    /\ objs' = [objs EXCEPT ![kself] =
                  [objs[kself] EXCEPT
                      !.stdin = sys["stdin"],
                      !.stdout = sys["stdout"],
                      !.open = FALSE,
                      !.cleaned = TRUE,
                      !.recleaned = objs[kself].cleaned]]
    /\ ksteps' = Append(ksteps, "close")
    /\ UNCHANGED <<kself, kop, kflushed, kstale, peer_gone, kerr, session,
                   sys, nObj, pc, cur, via, nBind, nListen, nAccept, last,
                   restCleanup>>

\* rdb.py 136
K_clear ==
    /\ kpc = "clear"
    /\ kpc' = IF kop = "EOF" THEN "message" ELSE "idle"
    /\ session' = None
    /\ ksteps' = Append(ksteps, "clear")
    /\ UNCHANGED <<kself, kop, kflushed, kstale, peer_gone, kerr, objs, sys,
                   nObj, pc, cur, via, nBind, nListen, nAccept, last,
                   restCleanup>>

\* rdb.py 146: pdb's do_EOF writes an empty message to self.stdout
K_message ==
    /\ kpc = "message"
    /\ kpc' = "idle"
    /\ LET out == objs[kself].stdout
           stale == IsChan(out) /\ ~objs[out].open
       IN  /\ kstale' = (kstale \/ stale)
           /\ kerr' = IF stale THEN "ValueError" ELSE kerr
    /\ UNCHANGED <<kself, kop, ksteps, kflushed, peer_gone, srvVars,
                   restCleanup>>

NextCleanup ==
    \/ \E p \in BOOLEAN : K_Rdb(p)
    \/ \E o \in ObjIds : K_disconnect(o)
    \/ \E o \in ObjIds, op \in {"quit", "EOF"} : K_cleanup(o, op)
    \/ \E fail \in 0..3 : K_flush(fail)
    \/ K_restore
    \/ K_close
    \/ K_clear
    \/ K_message

SpecCleanup == Init /\ [][NextCleanup]_vars

(***************************************************************************)
(* Properties of the session (checked under Spec).                         *)
(***************************************************************************)
Live == {o \in ObjIds : objs[o].built /\ objs[o].open}
Allocated == {o \in ObjIds : objs[o].alloc}
CleanupOps == {"quit", "EOF", "host_quit"}

\* C1: while a session exists (no cleanup ran since it was created), a
\* set_trace call performs no bind, no listen and no accept, creates no Rdb
\* object, leaves the session reference alone and invokes the trap on the
\* session object, which is the engine every earlier call used.
C1_SessionReuse ==
    [][(session # None /\ \E p \in BOOLEAN, ok \in BOOLEAN : set_trace(p, ok))
        => /\ nBind' = nBind /\ nListen' = nListen /\ nAccept' = nAccept
           /\ nObj' = nObj /\ objs' = objs /\ sys' = sys
           /\ session' = session
           /\ last'.obj = session
           /\ objs[session].built => (pc' = "interact" /\ cur' = session)]_vars

\* a reused session runs its command loop after a single accept
C1_Witness ==
    /\ last.op = "reuse" /\ ~last.raised
    /\ pc = "interact" /\ cur = session
    /\ objs[session].open
    /\ nAccept = 1 /\ nBind = 1 /\ nObj = 1

\* C2: at most one Rdb object with an open channel exists, and Rdb._session
\* is None or refers to that object.
C2_Singleton ==
    /\ Cardinality(Live) <= 1
    /\ session = None \/ session \in Live

\* C3: a cleanup of an object that was already cleaned up raises nothing and
\* restores nothing: a sys.<stream> name the host assigned in between keeps
\* the host's value.
C3_IdempotentCleanup ==
    [][\A o \in ObjIds :
          (objs[o].cleaned /\ HostQuit(o)) => (~last'.raised /\ sys' = sys)]_vars

\* C4: when the engine raises inside a command loop that set_trace started
\* on a session with patched stdio, then, as the exception reaches the
\* caller, the saved endpoints are restored, the channel is closed, the
\* session reference is empty and the cleanup has run exactly once.
C4_EngineFailureCleansUp ==
    [][(EngineRaises /\ via = "set_trace" /\ objs[cur].stdio_patched)
        => /\ session' = None
           /\ ~objs'[cur].open
           /\ sys' = objs[cur].pre
           /\ objs'[cur].cleaned /\ ~objs'[cur].recleaned]_vars

\* C5: a cleanup() of a session constructed with patch_stdio, whose channel
\* is still open, leaves each of sys.stdin, sys.stdout and sys.stderr at the
\* endpoint it was immediately before the construction, whatever happened
\* between the construction and the cleanup.
C5_RedirectionSymmetry ==
    [][\A o \in ObjIds :
          (/\ objs[o].open /\ objs[o].stdio_patched
           /\ HostQuit(o) \/ ((do_quit \/ do_EOF) /\ cur = o))
              => sys' = objs[o].pre]_vars

\* C6: the quit command and EOF, in the command loop of the session, leave
\* the session reference empty and the channel closed and, when stdio was
\* patched, the sys.<stream> names at the endpoints saved at construction.
C6_TeardownOnQuitEOF ==
    [][((do_quit \/ do_EOF) /\ cur = session)
        => /\ session' = None
           /\ ~objs'[cur].open
           /\ objs[cur].stdio_patched => sys' = objs[cur].original_streams]_vars

\* C7: a channel that a cleanup closed stays closed and no command loop that
\* set_trace starts runs on it; a set_trace call with no session binds,
\* listens and accepts exactly once and yields an object that did not exist
\* before, with an open channel; a set_trace call with a session accepts
\* nothing; so every accept belongs to exactly one constructed object.
C7_FreshPairAfterClose ==
    /\ [](nAccept = Cardinality({o \in ObjIds : objs[o].built}))
    /\ []((pc = "interact" /\ via = "set_trace") => objs[cur].open)
    /\ [][/\ \A o \in ObjIds : objs[o].cleaned => (objs'[o].cleaned /\ ~objs'[o].open)
          /\ (session = None /\ \E p \in BOOLEAN : set_trace(p, TRUE))
                => /\ nBind' = nBind + 1 /\ nListen' = nListen + 1
                   /\ nAccept' = nAccept + 1
                   /\ session' \notin Allocated
                   /\ objs'[session'].open /\ cur' = session'
          /\ (session # None /\ \E p \in BOOLEAN, ok \in BOOLEAN : set_trace(p, ok))
                => nAccept' = nAccept]_vars

\* a second session runs on a fresh channel after the first one was closed
C7_Witness ==
    /\ last.op = "set_trace" /\ ~last.raised
    /\ session = 2 /\ cur = 2 /\ objs[2].open
    /\ objs[1].cleaned /\ ~objs[1].open
    /\ nAccept = 2 /\ nBind = 2

\* C8: the continue command changes neither the session reference nor any
\* Rdb object (channel, redirection record) nor the sys.<stream> names; after
\* a continue in a command loop that set_trace started the session is still
\* that object with its channel open, so the next set_trace reuses it.
C8_ContinueKeepsSession ==
    [][do_continue
        => /\ session' = session /\ objs' = objs /\ sys' = sys
           /\ via = "set_trace" => (session' = cur /\ objs'[cur].open)]_vars

\* the session was continued with stdio still redirected to its channel
C8_Witness ==
    /\ last.op = "continue" /\ ~last.raised
    /\ session = last.obj /\ session # None
    /\ objs[session].open /\ objs[session].stdio_patched
    /\ \A s \in _std_streams : sys[s] = Chan(session)


\* C17: when bind fails in a set_trace call made with no session, the call
\* raises after that one bind attempt and changes nothing: the session
\* reference is still empty and sys.stdin, sys.stdout and sys.stderr are the
\* same; the next set_trace call therefore binds again.
C17_BindFailureLeavesNoSession ==
    [][/\ (session = None /\ \E p \in BOOLEAN : set_trace(p, FALSE))
            => /\ nBind' = nBind + 1
               /\ nAccept' = nAccept
               /\ last'.raised
               /\ session' = None
               /\ sys' = sys
       /\ (last.op = "set_trace" /\ last.raised
               /\ \E p \in BOOLEAN, ok \in BOOLEAN : set_trace(p, ok))
            => nBind' = nBind + 1]_vars

(***************************************************************************)
(* Properties of concurrent set_trace calls (checked under SpecThreads).   *)
(***************************************************************************)
\* C9: when two threads call set_trace at the same time with no session, at
\* most one channel is constructed (one bind, one accept) and, unless a bind
\* failed, both calls end in the command loop of the same session.
C9_ExclusiveConstruction ==
    /\ nBind <= 1
    /\ nAccept <= 1
    /\ (\A t \in Threads : tpc[t] \in {"loop", "trap_raised"})
          => \A t \in Threads, u \in Threads :
                tpc[t] = "loop" /\ tself[t] = tself[u]

(***************************************************************************)
(* Properties of the client (checked under SpecClient).                    *)
(***************************************************************************)
\* C10: the bytes written to local output followed by the bytes still
\* buffered are, at every moment, exactly the bytes received from the peer,
\* in order; when the loop has exited the bytes written to local output are
\* exactly the bytes received, whatever the sizes of the chunks recv()
\* returned and of the prefixes local output accepted.
C10_LosslessInbound ==
    /\ written \o stdoutbuf = Received
    /\ cpc = "exit" => (eof /\ written = Received)

\* the loop has exited after relaying everything the peer sent
C10_Witness ==
    /\ cpc = "exit"
    /\ rcount = MaxPeerBytes
    /\ written = Received
    /\ Len(written) = MaxPeerBytes

\* C11: the loop exits only when the peer's close has been observed and the
\* inbound buffer is empty; whatever was buffered when the zero-length read
\* was observed has by then been written to local output, as the last bytes
\* written.
C11_DrainBeforeExit ==
    cpc = "exit"
        => /\ socket_closed
           /\ stdoutbuf = <<>>
           /\ Len(closebuf) <= Len(written)
           /\ Drop(written, Len(written) - Len(closebuf)) = closebuf

\* the loop has exited after a close that found bytes still buffered
C11_Witness ==
    /\ cpc = "exit"
    /\ closebuf # <<>>
    /\ written = Received

\* C13: whatever the interleaving of local-input reads and partial sends, the
\* bytes the socket has accepted followed by the bytes still buffered are the
\* encoding of everything read from local input, so the bytes accepted are
\* always a prefix of it: nothing is reordered, duplicated or skipped.
C13_OrderPreservingOutbound ==
    /\ sent \o socketbuf = Encode(typed)
    /\ Len(sent) <= Len(Encode(typed))
    /\ sent = Take(Encode(typed), Len(sent))

\* a send has split a two-byte character and a later read was appended
\* behind the byte that is still buffered
C13_Witness ==
    /\ typed = <<"e_acute", "a">>
    /\ sent = <<195>>
    /\ socketbuf = <<169, 97>>

\* the callback receives from the socket (lines 267-271)
Recv ==
    \E e \in Events : e.stream = "socket" /\ e.mask # "W" /\ Dispatch(e)

\* C14: a zero-length recv sets socket_closed and leaves the inbound buffer
\* as it is, and once socket_closed is true no loop iteration receives from
\* the socket again.
C14_PeerCloseStopsReads ==
    [][/\ (Recv /\ eof') => (socket_closed' /\ stdoutbuf' = stdoutbuf)
       /\ socket_closed => ~Recv]_vars

(***************************************************************************)
(* Properties of partial sends (checked under SpecSend).                   *)
(***************************************************************************)
\* n / k rounded up
CeilDiv(n, k) == (n + k - 1) \div k

\* C12: with no new local input, a buffer of N bytes and a socket accepting
\* k > 0 bytes per send is emptied by exactly ceil(N / k) socket-writable
\* callbacks, not fewer, and the chunks handed to the socket, one after the
\* other, followed by what is still buffered are the original buffer.
C12_PartialSend ==
    spc = "send"
        => /\ sent \o socketbuf = Encode(typed)
           /\ socketbuf = <<>>
                 => cycles = CeilDiv(Len(Encode(typed)), accepts)
           /\ socketbuf # <<>>
                 => cycles < CeilDiv(Len(Encode(typed)), accepts)
           /\ Len(sent) = Min(cycles * accepts, Len(Encode(typed)))

\* four bytes against a socket accepting three per send: two callbacks, the
\* second one sending the single byte that was left
C12_Witness ==
    /\ spc = "send"
    /\ accepts = 3
    /\ Len(Encode(typed)) = 4
    /\ socketbuf = <<>>
    /\ cycles = 2
    /\ sent = Encode(typed)

(***************************************************************************)
(* Properties of the hook and of stream redirection (checked under         *)
(* SpecSys).                                                               *)
(***************************************************************************)
\* C19: uninstall_hook() right after install_hook() leaves sys.breakpointhook
\* equal to the value it had before install_hook(); uninstall_hook() when
\* install_hook() was never called leaves sys.breakpointhook unchanged.
C19_HookRoundTrip ==
    [][uninstall_hook
         => /\ hook_last = "install" => breakpointhook' = hook_before
            /\ ~hook_installed => breakpointhook' = breakpointhook]_vars

\* C20: when a redirected_stdout, redirected_stderr or redirected_stdstreams
\* context is left, normally or by an exception, nested or not, sys.stdout
\* and sys.stderr are the objects they were right before it was entered.
C20_RedirectionRestores ==
    [][\A exc \in BOOLEAN :
          LeaveContext(exc)
             => /\ sys'["stdout"] = ctx[Len(ctx)].before["stdout"]
                /\ sys'["stderr"] = ctx[Len(ctx)].before["stderr"]]_vars

(***************************************************************************)
(* Properties of the entry points (checked under SpecEntry).               *)
(***************************************************************************)
\* what the configuration says for a key: the value of the last file read
\* that sets it and, when no file sets it, the built-in default
LastLayer(key) ==
    LET I == {i \in 1..Len(files) : files[i][key] # <<>>}
    IN  IF I = {} THEN <<>> ELSE files[CHOOSE i \in I : \A j \in I : j <= i][key]
ConfiguredHost(key) ==
    IF LastLayer(key) = <<>> THEN _defaults[key] ELSE LastLayer(key)[1]
ConfiguredPort ==
    IF LastLayer("port") = <<>> THEN _defaults["port"] ELSE ToInt(LastLayer("port")[1])
EnvHost == environ.REMOTE_PDB_HOST
EnvPort == environ.REMOTE_PDB_PORT

\* C15: a set_trace call made with no session binds to the pair whose host
\* and port are, each on its own: the explicit argument if given, else the
\* override REMOTE_PDB_HOST / REMOTE_PDB_PORT if set, else the configuration
\* value bind_to / port of section rdb, whose lowest layer is the built-in
\* default.  The call reaches bind unless the port override it has to use
\* is not a number.
C15_ServerPrecedence ==
    call.op = "set_trace"
        => /\ call.outcome = "ValueError"
                 <=> (call.port = <<>> /\ EnvPort # <<>> /\ ~IsNumeric(EnvPort[1]))
           /\ call.outcome = "bind"
                 => /\ bound # <<>>
                    /\ bound[1].host =
                          IF call.host # <<>> THEN call.host[1]
                          ELSE IF EnvHost # <<>> THEN EnvHost[1]
                          ELSE ConfiguredHost("bind_to")
                    /\ bound[1].port =
                          IF call.port # <<>> THEN call.port[1]
                          ELSE IF EnvPort # <<>> THEN ToInt(EnvPort[1])
                          ELSE ConfiguredPort

\* host and port are resolved independently: the host comes from the
\* environment, the port from a configuration file
C15_Witness ==
    /\ call = Called("set_trace", <<>>, <<>>, "bind")
    /\ EnvHost = <<"env_host">>
    /\ EnvPort = <<>>
    /\ Len(files) = 1
    /\ files[1].port = << <<"1", "2">> >>
    /\ bound = <<[host |-> "env_host", port |-> 12]>>

\* the explicit port of a client call: a number, or the text of an option
ExplicitPort ==
    IF call.op = "main_client" THEN ToInt(call.port[1]) ELSE call.port[1]

C18_ConnectionRefused ==
    /\ (call.op = "main_client" /\ call.outcome = "refused")
          => /\ cli.log = "refused"
             /\ cli.nConnect = 1
             /\ ~cli.relay
             /\ cli.status = <<2>>
    /\ (cli.status # <<>> /\ ~(call.op = "main_client" /\ call.outcome = "refused"))
          => cli.status # <<2>>


\* ---------------------------------------------------------------------------
\* Properties of the stream contexts (SpecSys), continued
\* ---------------------------------------------------------------------------

\* the innermost active context
Top == ctx[Len(ctx)]

\* C21: while a redirected_stderr(file) context is active sys.stderr is the
\* target and sys.stdout is the same object as before entry, so a write to
\* stdout inside the context does not reach the target file (unless stdout
\* already reached it before entry).
C21_StderrOnly ==
    (Len(ctx) > 0 /\ Top.kind = "redirected_stderr")
        => /\ sys["stderr"] = Top.out
           /\ sys["stdout"] = Top.before["stdout"]
           /\ (Top.out \notin write(Top.before["stdout"])
                  => Top.out \notin write(sys["stdout"]))

\* C22: inside mirrored_stdstreams(file) a write to sys.stdout is delivered to
\* exactly what the original stdout delivered to plus file, and a write to
\* sys.stderr to what the original stderr delivered to plus file; so no
\* stdout write reaches the original stderr and no stderr write the original
\* stdout, unless the originals already did.
C22_MirrorsOwnOriginal ==
    (Len(ctx) > 0 /\ Top.kind = "mirrored_stdstreams")
        => /\ write(sys["stdout"]) = write(Top.before["stdout"]) \cup {Top.out}
           /\ write(sys["stderr"]) = write(Top.before["stderr"]) \cup {Top.out}


(***************************************************************************)
(* Properties of pytb.notification (SpecNotify)                            *)
(***************************************************************************)
\* how many notifications with this reason were sent
Sent(reason) ==
    Cardinality({i \in 1..Len(notifications) : notifications[i] = reason})

\* C23: when_done sends exactly one notification per exit according to the
\* outcome: the body raised an Exception - exactly one "failed", sent before
\* the same exception is re-raised to the caller; clean exit with
\* only_if_error false - exactly one "done"; clean exit with only_if_error
\* true - none; KeyboardInterrupt - none (and it reaches the caller).  While
\* the body runs nothing has been sent.
C23_WhenDoneOutcome ==
    /\ npc = "body" => Sent("failed") = 0 /\ Sent("done") = 0
    /\ npc \in {"leaving", "exited"} /\ nctx.outcome = "Exception"
          => Sent("failed") = 1 /\ Sent("done") = 0
    /\ npc = "leaving" => propagated = "none"
    /\ npc = "exited" /\ nctx.outcome = "Exception"
          => propagated = "Exception"
    /\ npc \in {"leaving", "exited"} /\ nctx.outcome = "clean"
          => /\ Sent("failed") = 0
             /\ Sent("done") = IF nctx.only_if_error THEN 0 ELSE 1
    /\ npc = "exited" /\ nctx.outcome = "clean" => propagated = "none"
    /\ npc \in {"leaving", "exited"} /\ nctx.outcome = "KeyboardInterrupt"
          => Sent("failed") = 0 /\ Sent("done") = 0
    /\ npc = "exited" /\ nctx.outcome = "KeyboardInterrupt"
          => propagated = "KeyboardInterrupt"

\* a when_done(only_if_error = True) context has been left cleanly
C23_Witness ==
    /\ npc = "exited"
    /\ nctx.kind = "when_done"
    /\ nctx.only_if_error
    /\ nctx.outcome = "clean"
    /\ notifications = <<>>


\* a check of when_stalled's Timer runs
StallCheck == Timer_call /\ timer_target = "check_stalled"

\* what a step has sent
NewlySent ==
    SubSeq(notifications', Len(notifications) + 1, Len(notifications'))

\* C24: a check that sees no new output since the previous check, with no
\* stall notification outstanding, sends "probably stalled"; "no longer
\* stalled" is sent only at a check that sees new output after a stall
\* notification; a check that sees the output still unchanged after a stall
\* notification sends nothing.
C24_StallAlternation ==
    [][StallCheck =>
          LET new == output # last_output IN
          /\ (~new /\ ~was_stalled) => NewlySent = <<"probably stalled">>
          /\ (NewlySent = <<"no longer stalled">>) => (new /\ was_stalled)
          /\ (~new /\ was_stalled) => NewlySent = <<>>]_vars

\* C25: Timer.stop() raises RuntimeError when the thread was not started via
\* call_every(); for a Timer started via call_every() it raises nothing, and
\* the target is not invoked again once the thread has observed the stop.
C25_TimerStop ==
    [][/\ Timer_stop
             => stop_outcome' = IF started = "call_every"
                                THEN "returned" ELSE "RuntimeError"
       /\ (Timer_call /\ started = "call_every") => observed = <<>>]_vars


(***************************************************************************)
(* Properties of pytb.schedule (SpecSchedule)                              *)
(***************************************************************************)
\* C26: a due date that is already in the past when the generator yields it
\* is ignored: the target is not run for it; the target runs only for due
\* dates that were in the future when they were taken.
C26_PastDueIgnored ==
    \A i \in 1..Len(runs) : runs[i] = "future"

\* C27: when stop() is called from another thread while the target runs, the
\* running invocation completes and stop() returns only after the schedule
\* thread has finished; the target is never invoked after stop() has
\* returned, nor after the interval generator is exhausted.
C27_StopAndExhaustion ==
    /\ [](stop_during /\ stop_pc = "returned"
             => sched_pc = "done" /\ finished = Len(runs))
    /\ [](exhausted => sched_pc \in {"while", "stop", "done"})
    /\ [][(stop_pc = "returned" \/ exhausted) => runs' = runs]_vars

\* stop() was called while the target ran and has returned
C27_Witness ==
    /\ stop_during
    /\ stop_pc = "returned"
    /\ runs # <<>>


(***************************************************************************)
(* Properties of parse_cron_spec (SpecCron)                                *)
(***************************************************************************)
\* the values an expression denotes between the limits: '*' is
\* min_value..max_value, 'i-j' includes j, 'i-j/s' steps by s from i
RECURSIVE FromTo(_, _, _)
FromTo(i, j, s) == IF i > j THEN <<>> ELSE <<i>> \o FromTo(i + s, j, s)
Denoted(e, max_value, min_value) ==
    CASE e.form = "*" -> FromTo(min_value, max_value, 1)
      [] e.form \in {"i", "i,j,k"} -> e.v
      [] e.form \in {"i-j", "i-j/s"} -> FromTo(e.v[1], e.v[2], e.s)

\* C28: parse_cron_spec raises ValueError whenever a value the expression
\* denotes is smaller than min_value or larger than max_value, and otherwise
\* returns exactly the denoted values.
C28_CronBounds ==
    cron # <<>> =>
        LET c == cron[1]
            d == Denoted(c.expr, c.max_value, c.min_value)
        IN  IF \E i \in 1..Len(d) : d[i] < c.min_value \/ d[i] > c.max_value
            THEN c.result.raises
            ELSE d # <<>> => ~c.result.raises /\ c.result.values = d


(***************************************************************************)
(* Properties of pytb.importlib (SpecLoader) and pytb.core (SpecImport)    *)
(***************************************************************************)
\* C29: install() on an installed loader and uninstall() on a loader that is
\* not installed raise RuntimeError and leave sys.meta_path unchanged; over
\* any sequence of install, uninstall and with-scopes a loader occurs at most
\* once in sys.meta_path, and it is absent after its with-scope has exited.
C29_LoaderInstallState ==
    /\ [](\A l \in Loaders : Count(meta_path, l) <= 1)
    /\ [][/\ \A l \in Loaders :
                (install(l) /\ Contains(meta_path, l))
                   => /\ loader_last'.outcome = "RuntimeError"
                      /\ meta_path' = meta_path
          /\ \A l \in Loaders :
                (uninstall(l) /\ ~Contains(meta_path, l))
                   => /\ loader_last'.outcome = "RuntimeError"
                      /\ meta_path' = meta_path
          /\ __exit__ => ~Contains(meta_path', scopes[Len(scopes)])]_vars

\* install() has just raised on a loader that one with-scope holds installed
C29_Witness ==
    /\ loader_last.op = "install"
    /\ loader_last.outcome = "RuntimeError"
    /\ Contains(scopes, loader_last.loader)
    /\ Contains(meta_path, loader_last.loader)

\* C30: a second call of init() after a completed first call raises
\* RuntimeError when reinitalisation_attempt_ok is false; when it is true the
\* attempt is ignored: none of the initialisation actions is performed a
\* second time.
C30_Reinitialisation ==
    [][\A ok \in BOOLEAN :
          (init(ok) /\ _initializer_frame # <<>>)
             => /\ init_last'.outcome = IF ok THEN "returned" ELSE "RuntimeError"
                /\ performed' = performed
                /\ meta_path' = meta_path]_vars


(***************************************************************************)
(* Further properties of the session (checked under Spec).                 *)
(***************************************************************************)
\* C31: for a session constructed with patch_stdio false, no operation of
\* its lifetime changes sys.stdin, sys.stdout or sys.stderr: not its
\* construction (by set_trace or directly), not a set_trace that reuses it,
\* not continue, quit or EOF in its command loop, not a cleanup or a repeated
\* cleanup by the host.
C31_NoStdioMutationUnpatched ==
    [][/\ (session = None /\ \E ok \in BOOLEAN : set_trace(FALSE, ok))
             => sys' = sys
       /\ (\E ok \in BOOLEAN : RdbDirect(FALSE, ok)) => sys' = sys
       /\ (/\ session # None
           /\ objs[session].built /\ ~objs[session].stdio_patched
           /\ \E p \in BOOLEAN, ok \in BOOLEAN : set_trace(p, ok))
             => sys' = sys
       /\ (/\ pc = "interact"
           /\ ~objs[cur].stdio_patched
           /\ (do_continue \/ do_quit \/ do_EOF))
             => sys' = sys
       /\ \A o \in ObjIds :
             (objs[o].built /\ ~objs[o].stdio_patched /\ HostQuit(o))
                => sys' = sys]_vars

\* an unpatched session was cleaned up a second time while sys.stdout was a
\* stream the host had assigned
C31_Witness ==
    /\ last.op = "host_quit" /\ ~last.raised
    /\ objs[last.obj].recleaned
    /\ ~objs[last.obj].stdio_patched
    /\ sys["stdout"] = HostStream


\* C32: while a session exists, a set_trace call with any patch_stdio
\* argument, and with any address (whether or not it could be bound), leaves
\* the session object as it is - its channel, its stdio_patched flag, its
\* saved streams - and leaves the three sys.<stream> names as they are; it
\* binds and accepts nothing.
C32_ReuseVerbatim ==
    [][\A p \in BOOLEAN, ok \in BOOLEAN :
          (session # None /\ set_trace(p, ok))
             => /\ objs'[session] = objs[session]
                /\ sys' = sys
                /\ session' = session
                /\ nBind' = nBind /\ nAccept' = nAccept]_vars

\* a session with patched stdio was reused and is still patched to its own
\* channel
C32_Witness ==
    /\ last.op = "reuse" /\ ~last.raised
    /\ session = last.obj
    /\ objs[session].open /\ objs[session].stdio_patched
    /\ objs[session].original_streams = StartStream
    /\ \A st \in _std_streams : sys[st] = Chan(session)
    /\ pc = "interact"


(***************************************************************************)
(* Properties of _cleanup taken one statement at a time (SpecCleanup).     *)
(***************************************************************************)
\* the place of a step in the order flush, restore, close, clear
StepRank(st) ==
    CASE st = "flush" -> 1 [] st = "restore" -> 2 [] st = "close" -> 3
      [] OTHER -> 4

\* C33: within one cleanup the steps happen in the order flush, restore
\* (if patched), close channel, clear session reference; the flush goes to
\* the endpoints installed before the restore; and no flush or write is
\* ever issued to a channel stream after it has been closed.
C33_CleanupOrder ==
    /\ [](\A i, j \in 1..Len(ksteps) :
             i < j => StepRank(ksteps[i]) < StepRank(ksteps[j]))
    /\ [](kpc = "restore" =>
             \A i \in 1..3 : kflushed[i] = sys[std_streams[i]])
    /\ [](~kstale)

\* C37: when the flush of a stdio endpoint raises during cleanup, the saved
\* endpoints are still restored and the session reference is still cleared
\* before the error propagates.
C37_CleanupSurvivesFlush ==
    (kpc = "idle" /\ kerr # "none" /\ ksteps = <<"flush">>)
       => /\ session = None
          /\ objs[kself].stdio_patched => sys = objs[kself].original_streams


(***************************************************************************)
(* Further properties of the client loop (checked under SpecClient).       *)
(***************************************************************************)
\* C34: in every loop iteration in which the socket is reported writable
\* and the outbound buffer is non-empty a send is performed, also when the
\* socket is reported readable in the same iteration.
C34_WritableServed ==
    [][\A e \in Events :
          (/\ e.stream = "socket"
           /\ e.mask \in {"W", "RW"}
           /\ socketbuf # <<>>
           /\ Dispatch(e)) => Len(sent') > Len(sent)]_vars


\* C35: once the peer has closed the connection, and with local output
\* accepting at least one byte per writable event, the loop eventually
\* exits with the inbound buffer empty, whatever is pending in the outbound
\* buffer and whatever local-input events keep occurring.
C35_ProxyTermination == eof ~> (cpc = "exit" /\ stdoutbuf = <<>>)

\* the loop has exited after a close that found bytes in both buffers
C35_Witness ==
    /\ cpc = "exit"
    /\ eof
    /\ closebuf # <<>>
    /\ socketbuf # <<>>
    /\ written = Received


(***************************************************************************)
(* Further property of concurrent calls (checked under SpecThreads).       *)
(***************************************************************************)
\* C36: with two threads calling set_trace concurrently, Rdb._session is
\* never non-empty before the construction of the session it refers to has
\* completed, and no thread invokes the trap on a session whose channel has
\* not yet been accepted and bound to the engine.
C36_NoHalfBuiltSession ==
    /\ session # None => objs[session].built
    /\ \A t \in Threads : tpc[t] # "trap_raised"


(***************************************************************************)
(* Property of Notify.every (checked under SpecEvery).                     *)
(***************************************************************************)
\* the thread of the Timer sends a progress update
SendsProgress == Timer_call /\ timer_target = "send_progress"

\* C38: under every interleaving of the timer thread with the exit of the
\* body, no "progress update" is sent after the every() context has exited,
\* and none is sent after the final "done" or "failed" notification of the
\* wrapped when_done.
C38_NoLateProgress ==
    [][SendsProgress
          => /\ npc # "exited"
             /\ Sent("done") = 0
             /\ Sent("failed") = 0]_vars

====
